---- MODULE Spec2Model ----
(***************************************************************************)
(* Model of the two-leg arbitrage execution engine                         *)
(* (src/src/core/execution.py, Executor) together with the order gateway   *)
(* it drives (src/src/polymarket/clob.py, CLOBClient) and the order/leg    *)
(* predicates of src/src/core/models.py; of the risk gate                  *)
(* (src/src/core/risk.py, RiskManager); and of the live trading loop       *)
(* (src/src/app/main.py, ArbitrageBot.live_trading_mode).                  *)
(*                                                                         *)
(* One behaviour of Spec is one call of Executor.execute_arbitrage.  The   *)
(* gateway (the exchange) is part of the state: it holds the status of the *)
(* YES buy order, the NO buy order and the unwind sell order, and it fills *)
(* open orders at moments of its own choosing while the attempt runs.      *)
(* Time is counted in ticks of check_interval (0.5 s).                     *)
(*                                                                         *)
(* One behaviour of SpecRisk is the life of one RiskManager: admission     *)
(* checks, result recordings and stats queries arrive in any order while   *)
(* the calendar day advances and the ledger's open exposure changes.       *)
(* Money is counted in cents.                                              *)
(*                                                                         *)
(* One behaviour of SpecScan is one call of Scanner.scan_and_rank on a     *)
(* list of markets; one behaviour of SpecValidate is one call of           *)
(* RiskManager.validate_opportunity.  Prices are counted in cents, sizes   *)
(* in shares.                                                              *)
(*                                                                         *)
(* One behaviour of SpecLive is one call of live_trading_mode after the    *)
(* operator's confirmation: the loop of emergency-stop check, scan,        *)
(* validation, admission check, execution and stats, over the same         *)
(* RiskManager state; an execution is one step that ends in any of the     *)
(* results execute_arbitrage can return.                                   *)
(***************************************************************************)
EXTENDS Integers, FiniteSets, Sequences, TLC

VARIABLES
    pc,                     \* position of execute_arbitrage
    dry_run,                \* argument dry_run
    partial_fill_unwind,    \* config.partial_fill_unwind
    order_timeout_seconds,  \* config.order_timeout_seconds
    bids,                   \* gateway: does the token's book hold a bid
    gw,                     \* gateway: status of each order slot
    placed,                 \* what each place_limit_order task returned
    trade_pair,             \* TradePair: status of yes_order and no_order
    polled,                 \* what each get_order_status task returned
    elapsed,                \* _wait_for_fills: elapsed, in ticks
    loopExit,               \* how the polling loop was left
    cancelReq,              \* cancel requests sent to the gateway, per slot
    cancelRuns,             \* executions of _cancel_unfilled_orders
    statusReqs,             \* get_order_status requests sent
    bookReqs,               \* get_orderbook requests sent
    waitResult,             \* value returned by _wait_for_fills
    unwindLeg,              \* leg _unwind_partial_fill decided to sell
    unwindResult,           \* value returned by _unwind_partial_fill
    positions,              \* ledger: positions saved by this attempt
    ledgerFailed,           \* a storage write raised during the attempt
    statusFailed,           \* a status check failed during the attempt
    result,                 \* ExecutionResult returned
    returned_pair,          \* is the second component of the return a TradePair
    gw_filled,              \* gateway: filled quantity of each order slot
    bid_price,              \* gateway: best bid of each token's book, 0 if none
    unwind_order,           \* the place_limit_order request of the unwind
    config,                 \* RiskManager: the thresholds of self.config
    daily_trades,           \* RiskManager.daily_trades
    daily_pnl,              \* RiskManager.daily_pnl
    daily_reset_time,       \* RiskManager.daily_reset_time, a day number
    today,                  \* the clock: datetime.now().date(), a day number
    total_exposure,         \* ledger: sum of total_cost over open positions
    check,                  \* the check_trade_allowed call in flight
    lastCheck,              \* the check_trade_allowed call that just returned
    can_trade,              \* "can_trade" of the get_risk_stats just returned
    callsToday,             \* record_trade_result calls since midnight
    pnlToday,               \* sum of their net_pnl arguments
    lossBlockedDay,         \* last day a check was denied for the daily loss
    opDay,                  \* day of the last RiskManager operation
    live_pc,                \* position of live_trading_mode
    max_trades,             \* argument max_trades
    trades_executed,        \* live_trading_mode: trades_executed
    best_opp,               \* live_trading_mode: best_opp
    executions,             \* execute_arbitrage calls made by the loop
    unwindFailed,           \* an attempt of the loop ended in a failed unwind
    consecutiveFailed,      \* FAILED results in a row, up to now
    cycle,                  \* live_trading_mode: what this cycle has done
    scan_pc,                \* position of scan_and_rank
    markets,                \* scan_markets: the list of markets
    outcomes,               \* what happened to each market's scan task
    results,                \* what each scan_market task returned
    opportunities,          \* the list scan_markets returned
    ranked,                 \* the list rank_opportunities returned
    validation,             \* a validate_opportunity call and its result
    enabled,                \* AutoExecutor.enabled
    trading_mode,           \* config.trading_mode
    consecutive_failures,   \* AutoExecutor.consecutive_failures
    last_loss_time,         \* AutoExecutor.last_loss_time
    executed_trades,        \* AutoExecutor.executed_trades: market -> time
    clock,                  \* datetime.now(timezone.utc), in ticks
    placing,                \* calls awaiting place_limit_order, per market
    lastReturn,             \* what the last step of a call did
    tripped                 \* the count reached the limit, no reset since

execVars == << pc, dry_run, partial_fill_unwind, order_timeout_seconds, bids, gw,
           placed, trade_pair, polled, elapsed, loopExit, cancelReq,
           cancelRuns, statusReqs, bookReqs, waitResult, unwindLeg,
           unwindResult, positions, ledgerFailed, statusFailed, result,
           returned_pair, gw_filled, bid_price, unwind_order >>

\* Quantities and prices: what only the gateway's fills and the unwind's
\* sell order change.
qtyVars == << gw_filled, bid_price, unwind_order >>

riskVars == << config, daily_trades, daily_pnl, daily_reset_time, today,
               total_exposure, check, lastCheck, can_trade, callsToday,
               pnlToday, lossBlockedDay, opDay >>

liveVars == << live_pc, max_trades, trades_executed, best_opp, executions,
               unwindFailed, consecutiveFailed, cycle >>

scanVars == << scan_pc, markets, outcomes, results, opportunities, ranked,
               validation >>

autoVars == << enabled, trading_mode, consecutive_failures, last_loss_time,
               executed_trades, clock, placing, lastReturn, tripped >>

\* Everything execute_arbitrage leaves alone.
nonExecVars == << riskVars, liveVars, scanVars, autoVars >>

\* Everything the RiskManager's operations leave alone.
nonRiskVars == << execVars, liveVars, scanVars, autoVars >>

\* Everything the Scanner and validate_opportunity leave alone.
nonScanVars == << execVars, riskVars, liveVars, autoVars >>

\* Everything the AutoExecutor leaves alone.
nonAutoVars == << execVars, riskVars, liveVars, scanVars >>

vars == << execVars, riskVars, liveVars, scanVars, autoVars >>

----------------------------------------------------------------------------
(* Bounds and program constants *)

\* Largest configured order_timeout_seconds explored.
MaxTimeout == 2

\* Ticks per second: check_interval = 0.5 s.
TicksPerSecond == 2

----------------------------------------------------------------------------
(* Types *)

Legs == {"YES", "NO"}

Slots == {"YES", "NO", "UNWIND"}

Other(leg) == IF leg = "YES" THEN "NO" ELSE "YES"

\* ExecutionResult
ExecutionResult == {"SUCCESS", "PARTIAL_FILL", "TIMEOUT", "FAILED", "UNWOUND"}

\* OrderStatus
OrderStatus == {"PENDING", "FILLED", "PARTIALLY_FILLED", "CANCELLED", "FAILED"}

\* Status strings the gateway reports for an order it holds.
GatewayStatus == {"OPEN", "PARTIAL", "FILLED", "CANCELLED"}

NoPair == [YES |-> "NONE", NO |-> "NONE"]

\* The opportunity execute_arbitrage is called with: position_size in
\* shares, the asks in cents.
TradedOpportunity == [position_size |-> 2, yes_ask |-> 48, no_ask |-> 50]

\* Best bids a token's book may show, in cents.
BidPrices == {45, 47}

\* No place_limit_order request has been made by the unwind.
NoOrder ==
    [token |-> "NONE", side |-> "NONE", price |-> 0, size |-> 0,
     requests |-> 0]

\* Order.size of the order a slot holds: both legs are bought with
\* size = opportunity.position_size (execution.py 81, 98, 106), the unwind
\* sells the size of its request.
order_size(slot, uo) ==
    IF slot = "UNWIND" THEN uo.size ELSE TradedOpportunity.position_size

\* Order.filled_size as get_order_status reads it from the gateway's answer
\* (clob.py 341-347), for an order the gateway reports with this status:
\* all of a FILLED order, one share of a PARTIALLY_FILLED one, else nothing.
filled_size(status) ==
    CASE status = "FILLED"           -> TradedOpportunity.position_size
      [] status = "PARTIALLY_FILLED" -> 1
      [] OTHER                       -> 0

----------------------------------------------------------------------------
(* models.py: Order and TradePair predicates *)

\* Order.is_filled
is_filled(status) == status = "FILLED"

\* TradePair.is_fully_filled
is_fully_filled(tp) == is_filled(tp.YES) /\ is_filled(tp.NO)

NeverPartiallyFilled(tp) == FALSE

\* TradePair.is_partially_filled
is_partially_filled(tp) ==
    \/ (is_filled(tp.YES) /\ ~ is_filled(tp.NO))
    \/ (is_filled(tp.NO) /\ ~ is_filled(tp.YES))

----------------------------------------------------------------------------
(* clob.py: the gateway client *)

\* get_order_status: status_map, with PENDING for an unknown string.
status_map(s) ==
    CASE s = "OPEN"      -> "PENDING"
      [] s = "FILLED"    -> "FILLED"
      [] s = "PARTIAL"   -> "PARTIALLY_FILLED"
      [] s = "CANCELLED" -> "CANCELLED"
      [] s = "FAILED"    -> "FAILED"
      [] OTHER           -> "PENDING"

\* cancel_order: the gateway's state after POST /cancel; ok is whether the
\* request reached the gateway and was accepted.
CancelEffect(g, slot, ok) ==
    IF ok /\ g[slot] \in {"OPEN", "PARTIAL"}
    THEN [g EXCEPT ![slot] = "CANCELLED"]
    ELSE g

\* place_limit_order: the gateway's state after the call; outcome is
\* "order" (an Order with the exchange's id), "none" (the call returned
\* None) or "exc" (the call raised).
PlaceEffect(g, slot, outcome) ==
    IF outcome = "order" THEN [g EXCEPT ![slot] = "OPEN"] ELSE g

\* CLOBClient itself answers every failure (no account, bad price or size, a
\* failed POST) with None; "exc" is the raised error that lines 117-126 and
\* 310-312 of execution.py handle.
PlaceOutcomes == {"order", "none", "exc"}

----------------------------------------------------------------------------
(* risk.py, config.py, models.py: what the risk gate reads *)

\* Last calendar day explored (days are numbered from the construction of
\* the RiskManager).
MaxDay == 1

\* Most record_trade_result calls explored within one day.
MaxCalls == 2

\* Config: the six thresholds check_trade_allowed reads.  max_trade_size is
\* in shares, the money thresholds in cents, min_apy in percent,
\* max_days_to_resolution in days.
Thresholds ==
    [max_trade_size : {1, 2}, max_daily_loss : {300, 500},
     max_open_exposure : {200, 300}, min_net_profit : {10, 20},
     min_apy : {50, 110}, max_days_to_resolution : {5, 30}]

\* The loosest of them.
LooseConfig ==
    [max_trade_size |-> 2, max_daily_loss |-> 500, max_open_exposure |-> 300,
     min_net_profit |-> 10, min_apy |-> 50, max_days_to_resolution |-> 30]

\* The thresholds a RiskManager is constructed with here: the loosest, and
\* those that differ from them in one threshold.
Configs ==
    {c \in Thresholds :
        Cardinality({f \in DOMAIN c : c[f] # LooseConfig[f]}) <= 1}

\* ArbitrageOpportunity: the fields check_trade_allowed reads; sum_asks is
\* yes_ask + no_ask in cents, days_to_resolution is market.days_to_resolution.
Opportunities ==
    [position_size : {2, 3}, sum_asks : {98}, net_profit : {5, 18},
     apy : {40, 104}, days_to_resolution : {7, 40}, liquidity : {100}]

\* net_pnl arguments of record_trade_result, in cents.
NetPnls == {-300, -200, 18}

\* Sums of total_cost over the ledger's open positions, in cents.
Exposures == {0, 50}

\* No check_trade_allowed call is in flight.
IdleCheck ==
    [pc |-> "idle", day |-> -1, pnl |-> 0, hist |-> 0,
     opp |-> [position_size |-> 2, sum_asks |-> 98, net_profit |-> 18,
              apy |-> 104, days_to_resolution |-> 7, liquidity |-> 100]]

\* No check_trade_allowed call has just returned.
NoCheck ==
    [day |-> -1, pnl |-> 0, hist |-> 0, exposure |-> 0, allowed |-> FALSE,
     reason |-> "none", opp |-> IdleCheck.opp]

\* RiskManager.__init__ (lines 19-33) with the clock at day 0 and an empty
\* ledger.
RiskConstructed ==
    /\ daily_trades = 0
    /\ daily_pnl = 0
    /\ daily_reset_time = 0
    /\ today = 0
    /\ check = IdleCheck
    /\ lastCheck = NoCheck
    /\ can_trade = "NONE"
    /\ callsToday = 0
    /\ pnlToday = 0
    /\ lossBlockedDay = -1
    /\ opDay = -1

\* A cycle of the live loop in which nothing has been done yet: has the
\* opportunity passed validate_opportunity, has check_trade_allowed allowed
\* it, how many execute_arbitrage calls were made.
NoCycle == [stop_checked |-> FALSE, validated |-> FALSE, allowed |-> FALSE,
            execs |-> 0]

\* live_trading_mode is not running.
LiveIdle ==
    /\ live_pc = "idle"
    /\ max_trades = 0
    /\ trades_executed = 0
    /\ best_opp = IdleCheck.opp
    /\ executions = 0
    /\ unwindFailed = FALSE
    /\ consecutiveFailed = 0
    /\ cycle = NoCycle

\* A validate_opportunity call that has not been made.
NoValidation ==
    [pc |-> "idle", valid |-> FALSE, reason |-> "none",
     opp |-> [net_profit |-> 18, yes_ask |-> 48, no_ask |-> 50,
              liquidity |-> 10, is_active |-> TRUE]]

\* scan_and_rank is not running and validate_opportunity is not called.
ScanIdle ==
    /\ scan_pc = "idle"
    /\ markets = << >>
    /\ outcomes = << >>
    /\ results = << >>
    /\ opportunities = << >>
    /\ ranked = << >>
    /\ validation = NoValidation

\* Markets the copy-trade signals are about.
AutoMarkets == {"m1", "m2"}

\* The market has no entry in executed_trades; last_loss_time is None.
NoTime == -1

\* No step of an execute_copy_signal call has just been taken.
NoReturn == [kind |-> "none", market |-> "none", result |-> "NONE",
             posted |-> FALSE]

\* AutoExecutor.__init__ (auto_executor.py 52-61) with auto trading off.
AutoIdle ==
    /\ enabled = FALSE
    /\ trading_mode = "paper"
    /\ consecutive_failures = 0
    /\ last_loss_time = NoTime
    /\ executed_trades = [m \in AutoMarkets |-> NoTime]
    /\ clock = 0
    /\ placing = [m \in AutoMarkets |-> 0]
    /\ lastReturn = NoReturn
    /\ tripped = FALSE

----------------------------------------------------------------------------
(* Initial state: execute_arbitrage has been called *)

Init ==
    /\ pc = "start"
    /\ dry_run \in BOOLEAN
    /\ partial_fill_unwind \in BOOLEAN
    /\ order_timeout_seconds \in 0..MaxTimeout
    /\ bids \in [Legs -> BOOLEAN]
    /\ gw = [s \in Slots |-> "NONE"]
    /\ placed = [s \in Slots |-> "idle"]
    /\ trade_pair = NoPair
    /\ polled = [l \in Legs |-> "idle"]
    /\ elapsed = 0
    /\ loopExit = "none"
    /\ cancelReq = [s \in Slots |-> 0]
    /\ cancelRuns = 0
    /\ statusReqs = 0
    /\ bookReqs = 0
    /\ waitResult = "NONE"
    /\ unwindLeg = "NONE"
    /\ unwindResult = "NONE"
    /\ positions = {}
    /\ ledgerFailed = FALSE
    /\ statusFailed = FALSE
    /\ result = "NONE"
    /\ returned_pair = FALSE
    /\ gw_filled = [s \in Slots |-> 0]
    /\ bid_price \in {f \in [Legs -> BidPrices \cup {0}] :
                        \A l \in Legs : (f[l] = 0) <=> ~ bids[l]}
    /\ unwind_order = NoOrder
    /\ config = LooseConfig
    /\ total_exposure = 0
    /\ RiskConstructed
    /\ LiveIdle
    /\ ScanIdle
    /\ AutoIdle

\* return (r, trade_pair) / return (r, None)
Return(r, pair) ==
    /\ pc' = "done"
    /\ result' = r
    /\ returned_pair' = pair

\* The error leaves execute_arbitrage: the caller receives no value.
Propagate ==
    /\ pc' = "raised"
    /\ UNCHANGED << result, returned_pair >>

\* Lines 161-163: except Exception: return (ExecutionResult.FAILED, None)
ExceptException == Return("FAILED", FALSE)

----------------------------------------------------------------------------
(* The gateway's own moves: the exchange matches orders it holds *)

\* An order the gateway holds is filled completely.
GatewayFill(slot) ==
    /\ pc \notin {"start", "done"}
    /\ gw[slot] \in {"OPEN", "PARTIAL"}
    /\ gw' = [gw EXCEPT ![slot] = "FILLED"]
    /\ gw_filled' = [gw_filled EXCEPT ![slot] = order_size(slot, unwind_order)]
    /\ UNCHANGED << pc, dry_run, partial_fill_unwind, order_timeout_seconds,
                    bids, placed, trade_pair, polled, elapsed, loopExit,
                    cancelReq, cancelRuns, statusReqs, bookReqs, waitResult,
                    unwindLeg, unwindResult, positions, ledgerFailed,
                    statusFailed, result, returned_pair, bid_price,
                    unwind_order >>
    /\ UNCHANGED nonExecVars

\* An open order is filled in part (0 < filled_size < size) and stays live.
GatewayPartialFill(slot) ==
    /\ pc \notin {"start", "done"}
    /\ gw[slot] = "OPEN"
    /\ order_size(slot, unwind_order) > 1
    /\ gw' = [gw EXCEPT ![slot] = "PARTIAL"]
    /\ gw_filled' = [gw_filled EXCEPT ![slot] = 1]
    /\ UNCHANGED << pc, dry_run, partial_fill_unwind, order_timeout_seconds,
                    bids, placed, trade_pair, polled, elapsed, loopExit,
                    cancelReq, cancelRuns, statusReqs, bookReqs, waitResult,
                    unwindLeg, unwindResult, positions, ledgerFailed,
                    statusFailed, result, returned_pair, bid_price,
                    unwind_order >>
    /\ UNCHANGED nonExecVars

GatewayFills == \E slot \in Slots : GatewayFill(slot)

GatewayPartialFills == \E slot \in Slots : GatewayPartialFill(slot)

----------------------------------------------------------------------------
(* execute_arbitrage, step 1: place both legs *)

\* Lines 83-107: the dry-run shortcut, else both placement tasks are created.
Start ==
    /\ pc = "start"
    /\ IF dry_run
       THEN /\ Return("SUCCESS", FALSE)
            /\ UNCHANGED placed
       ELSE /\ pc' = "placing"
            /\ placed' = [placed EXCEPT !.YES = "pending", !.NO = "pending"]
            /\ UNCHANGED << result, returned_pair >>
    /\ UNCHANGED << dry_run, partial_fill_unwind, order_timeout_seconds, bids,
                    gw, trade_pair, polled, elapsed, loopExit, cancelReq,
                    cancelRuns, statusReqs, bookReqs, waitResult, unwindLeg,
                    unwindResult, positions, ledgerFailed, statusFailed >>
    /\ UNCHANGED qtyVars
    /\ UNCHANGED nonExecVars

\* One of the two gathered place_limit_order tasks settles.
PlaceLeg(leg) ==
    /\ pc = "placing"
    /\ placed[leg] = "pending"
    /\ \E outcome \in PlaceOutcomes :
          /\ placed' = [placed EXCEPT ![leg] = outcome]
          /\ gw' = PlaceEffect(gw, leg, outcome)
    /\ UNCHANGED << pc, dry_run, partial_fill_unwind, order_timeout_seconds,
                    bids, trade_pair, polled, elapsed, loopExit, cancelReq,
                    cancelRuns, statusReqs, bookReqs, waitResult, unwindLeg,
                    unwindResult, positions, ledgerFailed, statusFailed,
                    result, returned_pair >>
    /\ UNCHANGED qtyVars
    /\ UNCHANGED nonExecVars

PlaceYes == PlaceLeg("YES")

PlaceNo == PlaceLeg("NO")

YesCancelAlways(yes_order) == TRUE

\* Line 124: if yes_order and yes_order.id
YesCancelNeeded(yes_order) == yes_order = "order"

GatherFirstError(p) ==
    \/ p.YES \in {"none", "exc"}
    \/ p.NO \in {"none", "exc"}
    \/ (p.YES # "pending" /\ p.NO # "pending")

\* Lines 110-114: asyncio.gather(yes_task, no_task, return_exceptions=True)
\* returns when both tasks have settled, with a result or with an error.
GatherSettled(p) == p.YES # "pending" /\ p.NO # "pending"

\* Lines 116-132: both tasks have settled; the error checks.
CheckPlaced ==
    /\ pc = "placing"
    /\ GatherSettled(placed)
    /\ IF placed.YES = "exc"
       THEN /\ Return("FAILED", FALSE)
            /\ UNCHANGED << gw, cancelReq >>
       ELSE IF placed.NO = "exc"
       THEN /\ IF YesCancelNeeded(placed.YES)
               THEN \E ok \in BOOLEAN :
                       /\ gw' = CancelEffect(gw, "YES", ok)
                       /\ cancelReq' = [cancelReq EXCEPT !.YES = @ + 1]
               ELSE UNCHANGED << gw, cancelReq >>
            /\ Return("FAILED", FALSE)
       ELSE IF placed.YES # "order" \/ placed.NO # "order"
       THEN /\ Return("FAILED", FALSE)
            /\ UNCHANGED << gw, cancelReq >>
       ELSE /\ pc' = "save"
            /\ UNCHANGED << gw, cancelReq, result, returned_pair >>
    /\ UNCHANGED << dry_run, partial_fill_unwind, order_timeout_seconds, bids,
                    placed, trade_pair, polled, elapsed, loopExit, cancelRuns,
                    statusReqs, bookReqs, waitResult, unwindLeg, unwindResult,
                    positions, ledgerFailed, statusFailed >>
    /\ UNCHANGED qtyVars
    /\ UNCHANGED nonExecVars

\* Lines 135-143: both orders are written to the ledger and the TradePair is
\* created; a write that raises is caught at lines 161-163.
SaveOrders ==
    /\ pc = "save"
    /\ \E ok \in BOOLEAN :
          IF ok
          THEN /\ trade_pair' = [YES |-> "PENDING", NO |-> "PENDING"]
               /\ pc' = "loop"
               /\ UNCHANGED << ledgerFailed, result, returned_pair >>
          ELSE /\ ledgerFailed' = TRUE
               /\ ExceptException
               /\ UNCHANGED trade_pair
    /\ UNCHANGED << dry_run, partial_fill_unwind, order_timeout_seconds, bids,
                    gw, placed, polled, elapsed, loopExit, cancelReq,
                    cancelRuns, statusReqs, bookReqs, waitResult, unwindLeg,
                    unwindResult, positions, statusFailed >>
    /\ UNCHANGED qtyVars
    /\ UNCHANGED nonExecVars

----------------------------------------------------------------------------
(* _wait_for_fills: step 2, the polling loop *)

LoopConditionInclusive(e, timeout) == e <= timeout * TicksPerSecond

\* Line 183: while elapsed < timeout (elapsed in ticks of check_interval)
LoopCondition(e, timeout) == e < timeout * TicksPerSecond

\* Lines 183-192 and 218-219: the loop test; a new round starts both status
\* checks, the end of the loop is the timeout.
LoopHead ==
    /\ pc = "loop"
    /\ IF LoopCondition(elapsed, order_timeout_seconds)
       THEN /\ pc' = "status"
            /\ polled' = [l \in Legs |-> "wait"]
            /\ statusReqs' = statusReqs + 2
            /\ UNCHANGED loopExit
       ELSE /\ pc' = "timeout"
            /\ loopExit' = "timeout"
            /\ UNCHANGED << polled, statusReqs >>
    /\ UNCHANGED << dry_run, partial_fill_unwind, order_timeout_seconds, bids,
                    gw, placed, trade_pair, elapsed, cancelReq, cancelRuns,
                    bookReqs, waitResult, unwindLeg, unwindResult, positions,
                    ledgerFailed, statusFailed, result, returned_pair >>
    /\ UNCHANGED qtyVars
    /\ UNCHANGED nonExecVars

\* One of the two gathered get_order_status tasks settles: an Order with the
\* gateway's current status, or None after an error (clob.py 363-365).
GetStatus(leg) ==
    /\ pc = "status"
    /\ polled[leg] = "wait"
    /\ \E ok \in BOOLEAN :
          /\ polled' = [polled EXCEPT
                           ![leg] = IF ok THEN status_map(gw[leg]) ELSE "none"]
          /\ statusFailed' = (statusFailed \/ ~ ok)
    /\ UNCHANGED << pc, dry_run, partial_fill_unwind, order_timeout_seconds,
                    bids, gw, placed, trade_pair, elapsed, loopExit, cancelReq,
                    cancelRuns, statusReqs, bookReqs, waitResult, unwindLeg,
                    unwindResult, positions, ledgerFailed, result,
                    returned_pair >>
    /\ UNCHANGED qtyVars
    /\ UNCHANGED nonExecVars

GetStatusYes == GetStatus("YES")

GetStatusNo == GetStatus("NO")

\* Lines 195-196, 199-200: the leg is replaced when an Order came back.
UpdateLeg(tp, leg, status) ==
    IF status \in OrderStatus THEN [tp EXCEPT ![leg] = status] ELSE tp

\* Lines 194-216: the rest of a round.  saveFail names the leg whose
\* save_order raises (caught at 161-163), recorded is the set of positions
\* _record_successful_trade wrote before it finished or raised (its own
\* handler, 344-345, swallows the error).
PollProcess ==
    /\ pc = "status"
    /\ polled.YES # "wait"
    /\ polled.NO # "wait"
    /\ \E saveFail \in {"no", "YES", "NO"}, recorded \in {{}, {"YES"}, {"YES", "NO"}} :
          LET tp1 == UpdateLeg(trade_pair, "YES", polled.YES)
              tp2 == UpdateLeg(tp1, "NO", polled.NO)
          IN  IF saveFail = "YES" /\ polled.YES \in OrderStatus
              THEN /\ trade_pair' = tp1
                   /\ ledgerFailed' = TRUE
                   /\ ExceptException
                   /\ UNCHANGED << elapsed, loopExit, waitResult, positions >>
              ELSE IF saveFail = "NO" /\ polled.NO \in OrderStatus
              THEN /\ trade_pair' = tp2
                   /\ ledgerFailed' = TRUE
                   /\ ExceptException
                   /\ UNCHANGED << elapsed, loopExit, waitResult, positions >>
              ELSE /\ trade_pair' = tp2
                   /\ IF is_fully_filled(tp2)
                      THEN /\ positions' = recorded
                           /\ ledgerFailed' = (ledgerFailed \/ recorded # Legs)
                           /\ waitResult' = "SUCCESS"
                           /\ loopExit' = "success"
                           /\ pc' = "after_wait"
                           /\ UNCHANGED elapsed
                      ELSE IF is_partially_filled(tp2)
                      THEN /\ waitResult' = "PARTIAL_FILL"
                           /\ loopExit' = "partial"
                           /\ pc' = "after_wait"
                           /\ UNCHANGED << elapsed, positions, ledgerFailed >>
                      ELSE /\ elapsed' = elapsed + 1
                           /\ pc' = "loop"
                           /\ UNCHANGED << loopExit, waitResult, positions,
                                           ledgerFailed >>
                   /\ UNCHANGED << result, returned_pair >>
    /\ polled' = [l \in Legs |-> "idle"]
    /\ UNCHANGED << dry_run, partial_fill_unwind, order_timeout_seconds, bids,
                    gw, placed, cancelReq, cancelRuns, statusReqs, bookReqs,
                    unwindLeg, unwindResult, statusFailed >>
    /\ UNCHANGED qtyVars
    /\ UNCHANGED nonExecVars

CancelTargetsYesOnly(tp) == {l \in {"YES"} : ~ is_filled(tp[l])}

\* Lines 236, 240: the legs _cancel_unfilled_orders sends a cancel for.
CancelTargets(tp) == {l \in Legs : ~ is_filled(tp[l])}

\* Lines 224-230: the final status after the timeout.
FinalStatus(tp) ==
    IF is_fully_filled(tp) THEN "SUCCESS"
    ELSE IF is_partially_filled(tp) THEN "PARTIAL_FILL"
    ELSE "TIMEOUT"

\* Lines 218-230 with _cancel_unfilled_orders (232-248): after the timeout a
\* cancel is sent for every leg not filled in trade_pair, then the final
\* status is read off trade_pair.  okYes/okNo: did the gateway accept.
CancelUnfilled ==
    /\ pc = "timeout"
    /\ \E okYes \in BOOLEAN, okNo \in BOOLEAN :
          LET targets == CancelTargets(trade_pair)
              g1 == IF "YES" \in targets THEN CancelEffect(gw, "YES", okYes) ELSE gw
              g2 == IF "NO" \in targets THEN CancelEffect(g1, "NO", okNo) ELSE g1
          IN  /\ gw' = g2
              /\ cancelReq' = [s \in Slots |->
                                 IF s \in targets THEN cancelReq[s] + 1
                                 ELSE cancelReq[s]]
    /\ cancelRuns' = cancelRuns + 1
    /\ waitResult' = FinalStatus(trade_pair)
    /\ pc' = "after_wait"
    /\ UNCHANGED << dry_run, partial_fill_unwind, order_timeout_seconds, bids,
                    placed, trade_pair, polled, elapsed, loopExit, statusReqs,
                    bookReqs, unwindLeg, unwindResult, positions, ledgerFailed,
                    statusFailed, result, returned_pair >>
    /\ UNCHANGED qtyVars
    /\ UNCHANGED nonExecVars

----------------------------------------------------------------------------
(* execute_arbitrage, step 3, and _unwind_partial_fill *)

UnwindRequestedAlways(res, unwind) == unwind

\* Line 151: result == PARTIAL_FILL and config.partial_fill_unwind
UnwindRequested(res, unwind) == res = "PARTIAL_FILL" /\ unwind

\* Lines 154-157: the result after an unwind attempt.
UnwindOutcome(ok) == IF ok THEN "UNWOUND" ELSE "PARTIAL_FILL"

\* Lines 148-159: _wait_for_fills has returned.
AfterWait ==
    /\ pc = "after_wait"
    /\ IF UnwindRequested(waitResult, partial_fill_unwind)
       THEN /\ pc' = "unwind"
            /\ UNCHANGED << result, returned_pair >>
       ELSE Return(waitResult, TRUE)
    /\ UNCHANGED << dry_run, partial_fill_unwind, order_timeout_seconds, bids,
                    gw, placed, trade_pair, polled, elapsed, loopExit,
                    cancelReq, cancelRuns, statusReqs, bookReqs, waitResult,
                    unwindLeg, unwindResult, positions, ledgerFailed,
                    statusFailed >>
    /\ UNCHANGED qtyVars
    /\ UNCHANGED nonExecVars

\* Lines 261-271: the leg to sell, "NONE" for an unexpected fill state.
FilledLeg(tp) ==
    IF is_filled(tp.YES) /\ ~ is_filled(tp.NO) THEN "YES"
    ELSE IF is_filled(tp.NO) /\ ~ is_filled(tp.YES) THEN "NO"
    ELSE "NONE"

\* _unwind_partial_fill returns ok and execute_arbitrage returns (154-157).
UnwindReturn(ok) ==
    /\ unwindResult' = (IF ok THEN "True" ELSE "False")
    /\ Return(UnwindOutcome(ok), TRUE)

\* Lines 261-281: pick the filled leg and fetch its order book; get_orderbook
\* answers with an empty book when the fetch fails (clob.py 195-198).
UnwindGetOrderbook ==
    /\ pc = "unwind"
    /\ LET leg == FilledLeg(trade_pair)
       IN  IF leg = "NONE"
           THEN /\ UnwindReturn(FALSE)
                /\ UNCHANGED << unwindLeg, bookReqs >>
           ELSE /\ unwindLeg' = leg
                /\ bookReqs' = bookReqs + 1
                /\ \E fetched \in BOOLEAN :
                      IF fetched /\ bids[leg]
                      THEN /\ pc' = "unwind_place"
                           /\ UNCHANGED << unwindResult, result, returned_pair >>
                      ELSE UnwindReturn(FALSE)
    /\ UNCHANGED << dry_run, partial_fill_unwind, order_timeout_seconds, bids,
                    gw, placed, trade_pair, polled, elapsed, loopExit,
                    cancelReq, cancelRuns, statusReqs, waitResult, positions,
                    ledgerFailed, statusFailed >>
    /\ UNCHANGED qtyVars
    /\ UNCHANGED nonExecVars

OtherToken(leg) == Other(leg)

\* Lines 262-263, 266-267: the token of the leg that is sold.
token_id(leg) == leg

\* Lines 288-294: the arguments of the unwind's place_limit_order call for
\* the filled leg, priced from the book fetched at line 281.
UnwindRequest(tp, leg, book, prev) ==
    [token |-> token_id(leg), side |-> "SELL", price |-> book[leg],
     size |-> filled_size(tp[leg]), requests |-> prev.requests + 1]

\* Lines 284-299: the sell order at the best bid; None or a raised error end
\* the unwind with False (292-294, 310-312).
UnwindPlace ==
    /\ pc = "unwind_place"
    /\ unwind_order' = UnwindRequest(trade_pair, unwindLeg, bid_price,
                                     unwind_order)
    /\ UNCHANGED << gw_filled, bid_price >>
    /\ \E outcome \in PlaceOutcomes :
          /\ placed' = [placed EXCEPT !.UNWIND = outcome]
          /\ gw' = PlaceEffect(gw, "UNWIND", outcome)
          /\ IF outcome = "order"
             THEN /\ pc' = "unwind_wait"
                  /\ UNCHANGED << unwindResult, result, returned_pair >>
             ELSE UnwindReturn(FALSE)
    /\ UNCHANGED << dry_run, partial_fill_unwind, order_timeout_seconds, bids,
                    trade_pair, polled, elapsed, loopExit, cancelReq,
                    cancelRuns, statusReqs, bookReqs, waitResult, unwindLeg,
                    positions, ledgerFailed, statusFailed >>
    /\ UNCHANGED nonExecVars

\* Lines 299-308: after the 2 s grace period the sell order's status is read
\* once.
UnwindCheck ==
    /\ pc = "unwind_wait"
    /\ statusReqs' = statusReqs + 1
    /\ \E ok \in BOOLEAN :
          /\ statusFailed' = (statusFailed \/ ~ ok)
          /\ UnwindReturn(ok /\ is_filled(status_map(gw.UNWIND)))
    /\ UNCHANGED << dry_run, partial_fill_unwind, order_timeout_seconds, bids,
                    gw, placed, trade_pair, polled, elapsed, loopExit,
                    cancelReq, cancelRuns, bookReqs, waitResult, unwindLeg,
                    positions, ledgerFailed >>
    /\ UNCHANGED qtyVars
    /\ UNCHANGED nonExecVars

----------------------------------------------------------------------------
(* Specification *)

Next ==
    \/ Start
    \/ PlaceYes
    \/ PlaceNo
    \/ CheckPlaced
    \/ SaveOrders
    \/ LoopHead
    \/ GetStatusYes
    \/ GetStatusNo
    \/ PollProcess
    \/ CancelUnfilled
    \/ AfterWait
    \/ UnwindGetOrderbook
    \/ UnwindPlace
    \/ UnwindCheck
    \/ GatewayFills
    \/ GatewayPartialFills

Spec == Init /\ [][Next]_vars

----------------------------------------------------------------------------
(* risk.py: RiskManager *)

NeverReset(t, reset_time) == FALSE

\* Line 38: if today > self.daily_reset_time
NeedsReset(t, reset_time) == t > reset_time

\* _check_daily_reset (lines 35-42): the counters after the call.
check_daily_reset(t) ==
    IF NeedsReset(t, daily_reset_time)
    THEN [trades |-> 0, pnl |-> 0, reset |-> t]
    ELSE [trades |-> daily_trades, pnl |-> daily_pnl,
          reset |-> daily_reset_time]

PositionSizeReached(opp, c) == opp.position_size >= c.max_trade_size

\* Line 60: opportunity.position_size > self.config.max_trade_size
PositionSizeExceeded(opp, c) == opp.position_size > c.max_trade_size

DailyLossReached(pnl, c) == pnl <= - c.max_daily_loss

\* Line 69: self.daily_pnl < -self.config.max_daily_loss
DailyLossExceeded(pnl, c) == pnl < - c.max_daily_loss

\* Line 84: total_exposure + (position_size * sum_asks)
new_exposure(exposure, opp) == exposure + opp.position_size * opp.sum_asks

ExposureAlreadyExceeded(exposure, opp, c) == exposure > c.max_open_exposure

\* Line 86: new_exposure > self.config.max_open_exposure
ExposureExceeded(exposure, opp, c) ==
    new_exposure(exposure, opp) > c.max_open_exposure

NetProfitAboveMinimum(opp, c) == opp.net_profit > c.min_net_profit

\* Line 95: opportunity.net_profit < self.config.min_net_profit
NetProfitBelowMinimum(opp, c) == opp.net_profit < c.min_net_profit

\* Line 104: opportunity.apy < self.config.min_apy
ApyBelowMinimum(opp, c) == opp.apy < c.min_apy

\* Lines 113-114: days_to_resolution > self.config.max_days_to_resolution
ResolutionTooFar(opp, c) ==
    opp.days_to_resolution > c.max_days_to_resolution

\* Lines 59-75: checks 1 and 2, made before the ledger is read; the reason
\* returned, "none" when both pass.
ChecksBeforeLedger(c, opp, pnl) ==
    IF PositionSizeExceeded(opp, c) THEN "trade_size"
    ELSE IF DailyLossExceeded(pnl, c) THEN "daily_loss"
    ELSE "none"

ChecksAfterLedgerApyFirst(c, opp, exposure) ==
    IF ExposureExceeded(exposure, opp, c) THEN "exposure"
    ELSE IF ApyBelowMinimum(opp, c) THEN "apy"
    ELSE IF NetProfitBelowMinimum(opp, c) THEN "net_profit"
    ELSE IF ResolutionTooFar(opp, c) THEN "days_to_resolution"
    ELSE "none"

\* Lines 84-124: checks 3 to 6, made after the ledger was read; the reason
\* returned, "none" for (True, None).
ChecksAfterLedger(c, opp, exposure) ==
    IF ExposureExceeded(exposure, opp, c) THEN "exposure"
    ELSE IF NetProfitBelowMinimum(opp, c) THEN "net_profit"
    ELSE IF ApyBelowMinimum(opp, c) THEN "apy"
    ELSE IF ResolutionTooFar(opp, c) THEN "days_to_resolution"
    ELSE "none"

\* check_trade_allowed as a function of everything it reads.
Allowed(c, opp, pnl, exposure) ==
    /\ ChecksBeforeLedger(c, opp, pnl) = "none"
    /\ ChecksAfterLedger(c, opp, exposure) = "none"

OverwritePnl(pnl, net_pnl) == net_pnl

\* Line 142: self.daily_pnl += net_pnl
AddPnl(pnl, net_pnl) == pnl + net_pnl

\* Line 205: "can_trade": self.daily_pnl > -self.config.max_daily_loss
CanTrade(pnl, c) == pnl > - c.max_daily_loss

\* lastCheck and can_trade hold a value only in the state its call returned
\* into; the next step of anything forgets it.
Forget(value) == IF value = "pending" THEN "pending" ELSE "NONE"

\* No execute_arbitrage call is being followed.
ExecIdle ==
    /\ pc = "idle"
    /\ dry_run = FALSE
    /\ partial_fill_unwind = TRUE
    /\ order_timeout_seconds = 0
    /\ bids = [l \in Legs |-> FALSE]
    /\ gw = [s \in Slots |-> "NONE"]
    /\ placed = [s \in Slots |-> "idle"]
    /\ trade_pair = NoPair
    /\ polled = [l \in Legs |-> "idle"]
    /\ elapsed = 0
    /\ loopExit = "none"
    /\ cancelReq = [s \in Slots |-> 0]
    /\ cancelRuns = 0
    /\ statusReqs = 0
    /\ bookReqs = 0
    /\ waitResult = "NONE"
    /\ unwindLeg = "NONE"
    /\ unwindResult = "NONE"
    /\ positions = {}
    /\ ledgerFailed = FALSE
    /\ statusFailed = FALSE
    /\ result = "NONE"
    /\ returned_pair = FALSE
    /\ gw_filled = [s \in Slots |-> 0]
    /\ bid_price = [l \in Legs |-> 0]
    /\ unwind_order = NoOrder

\* A RiskManager has been constructed with some thresholds over some ledger.
RiskInit ==
    /\ config \in Configs
    /\ total_exposure \in Exposures
    /\ RiskConstructed
    /\ ExecIdle
    /\ LiveIdle
    /\ ScanIdle
    /\ AutoIdle

\* check_trade_allowed, lines 56-75: the daily reset and checks 1 and 2.  A
\* denial returns at once; otherwise the call awaits the ledger (line 78).
CheckTradeAllowed ==
    /\ check.pc = "idle"
    /\ \E opp \in Opportunities :
          LET cnt == check_daily_reset(today)
              reason == ChecksBeforeLedger(config, opp, cnt.pnl)
          IN  /\ daily_trades' = cnt.trades
              /\ daily_pnl' = cnt.pnl
              /\ daily_reset_time' = cnt.reset
              /\ IF reason # "none"
                 THEN /\ lastCheck' = [day |-> today, pnl |-> cnt.pnl,
                                       hist |-> pnlToday,
                                       exposure |-> total_exposure,
                                       allowed |-> FALSE, reason |-> reason,
                                       opp |-> opp]
                      /\ lossBlockedDay' = IF reason = "daily_loss"
                                           THEN today ELSE lossBlockedDay
                      /\ UNCHANGED check
                 ELSE /\ check' = [pc |-> "ledger", day |-> today,
                                   pnl |-> cnt.pnl, hist |-> pnlToday,
                                   opp |-> opp]
                      /\ lastCheck' = NoCheck
                      /\ UNCHANGED lossBlockedDay
    /\ opDay' = today
    /\ can_trade' = Forget(can_trade)
    /\ UNCHANGED << config, today, total_exposure, callsToday, pnlToday >>
    /\ UNCHANGED nonRiskVars

\* check_trade_allowed, lines 78-124: get_open_positions has answered; checks
\* 3 to 6 and the return.
CheckTradeAllowedReturn ==
    /\ check.pc = "ledger"
    /\ LET reason == ChecksAfterLedger(config, check.opp, total_exposure)
       IN  lastCheck' = [day |-> check.day, pnl |-> check.pnl,
                         hist |-> check.hist, exposure |-> total_exposure,
                         allowed |-> (reason = "none"), reason |-> reason,
                         opp |-> check.opp]
    /\ check' = IdleCheck
    /\ can_trade' = Forget(can_trade)
    /\ UNCHANGED << config, daily_trades, daily_pnl, daily_reset_time, today,
                    total_exposure, callsToday, pnlToday, lossBlockedDay,
                    opDay >>
    /\ UNCHANGED nonRiskVars

\* record_trade_result (lines 126-153): no await between the reset, the two
\* updates and the return, so the call is one step of the event loop.
RecordTradeResult ==
    /\ callsToday < MaxCalls
    /\ \E net_pnl \in NetPnls :
          LET cnt == check_daily_reset(today)
          IN  /\ daily_trades' = cnt.trades + 1
              /\ daily_pnl' = AddPnl(cnt.pnl, net_pnl)
              /\ daily_reset_time' = cnt.reset
              /\ pnlToday' = pnlToday + net_pnl
    /\ callsToday' = callsToday + 1
    /\ opDay' = today
    /\ lastCheck' = NoCheck
    /\ can_trade' = Forget(can_trade)
    /\ UNCHANGED << config, today, total_exposure, check, lossBlockedDay >>
    /\ UNCHANGED nonRiskVars

\* get_risk_stats, line 162: the daily reset; the call then awaits the
\* ledger (lines 165, 173).
GetRiskStats ==
    /\ can_trade # "pending"
    /\ LET cnt == check_daily_reset(today)
       IN  /\ daily_trades' = cnt.trades
           /\ daily_pnl' = cnt.pnl
           /\ daily_reset_time' = cnt.reset
    /\ can_trade' = "pending"
    /\ opDay' = today
    /\ lastCheck' = NoCheck
    /\ UNCHANGED << config, today, total_exposure, check, callsToday,
                    pnlToday, lossBlockedDay >>
    /\ UNCHANGED nonRiskVars

\* get_risk_stats, lines 194-206: the dictionary is built and returned.
GetRiskStatsReturn ==
    /\ can_trade = "pending"
    /\ can_trade' = IF CanTrade(daily_pnl, config) THEN "True" ELSE "False"
    /\ lastCheck' = NoCheck
    /\ UNCHANGED << config, daily_trades, daily_pnl, daily_reset_time, today,
                    total_exposure, check, callsToday, pnlToday,
                    lossBlockedDay, opDay >>
    /\ UNCHANGED nonRiskVars

\* The clock: midnight passes.
Midnight ==
    /\ today < MaxDay
    /\ today' = today + 1
    /\ callsToday' = 0
    /\ pnlToday' = 0
    /\ lastCheck' = NoCheck
    /\ can_trade' = Forget(can_trade)
    /\ UNCHANGED << config, daily_trades, daily_pnl, daily_reset_time,
                    total_exposure, check, lossBlockedDay, opDay >>
    /\ UNCHANGED nonRiskVars

\* The ledger: positions are opened or closed (storage.py, save_position).
LedgerChange ==
    /\ \E e \in Exposures \ {total_exposure} : total_exposure' = e
    /\ lastCheck' = NoCheck
    /\ can_trade' = Forget(can_trade)
    /\ UNCHANGED << config, daily_trades, daily_pnl, daily_reset_time, today,
                    check, callsToday, pnlToday, lossBlockedDay, opDay >>
    /\ UNCHANGED nonRiskVars

RiskNext ==
    \/ CheckTradeAllowed
    \/ CheckTradeAllowedReturn
    \/ RecordTradeResult
    \/ GetRiskStats
    \/ GetRiskStatsReturn
    \/ Midnight
    \/ LedgerChange

SpecRisk == RiskInit /\ [][RiskNext]_vars

----------------------------------------------------------------------------
(* scanner.py: Scanner; risk.py: validate_opportunity *)

\* Most markets in the list handed to one scan.
MaxMarkets == 3

\* config.py 43-107: the settings the scanner and the validation read, in
\* cents, shares and percent: min_gross_edge 0.01, min_net_profit 0.10,
\* min_liquidity 10, min_apy 50, estimated_gas_cost_usd 0.01, and a
\* max_trade_size of 100 shares.
ScanConfig ==
    [min_gross_edge |-> 1, min_net_profit |-> 10, min_liquidity |-> 10,
     min_apy |-> 50, max_trade_size |-> 100, estimated_gas_cost_usd |-> 1]

\* models.py OrderBookLevel: one ask of an order book.
Ask(price, size) == [price |-> price, size |-> size]

\* A market as the scan sees it: the asks of its two order books, best
\* first, and Market.days_to_resolution (models.py 48-66, never negative).
MarketOf(yes_asks, no_asks, days) ==
    [yes_asks |-> yes_asks, no_asks |-> no_asks, days_to_resolution |-> days]

\* The markets a scan can meet: 0.48 + 0.50 with 100 shares on each side;
\* 0.51 + 0.50; no YES ask at all; deeper books than max_trade_size,
\* resolving today; the same prices five days from resolution; a thin YES
\* side; and an edge of one cent on ten shares.
MarketKinds ==
    { MarketOf(<< Ask(48, 100) >>, << Ask(50, 100) >>, 1),
      MarketOf(<< Ask(51, 100) >>, << Ask(50, 100) >>, 1),
      MarketOf(<< >>, << Ask(50, 100) >>, 1),
      MarketOf(<< Ask(48, 150), Ask(49, 500) >>, << Ask(50, 150) >>, 0),
      MarketOf(<< Ask(48, 100) >>, << Ask(50, 100) >>, 5),
      MarketOf(<< Ask(48, 20) >>, << Ask(50, 100) >>, 1),
      MarketOf(<< Ask(49, 10) >>, << Ask(50, 10) >>, 1) }

\* What one scan_market task meets: both books fetched; the fetch raised
\* (fetch_market_orderbooks, lines 73-75); anything else raised inside
\* scan_market's try (lines 216-218).
ScanOutcomes == {"books", "fetch_failed", "raised"}

None == [type |-> "None"]

Pending == [type |-> "pending"]

Min(a, b) == IF a <= b THEN a ELSE b

Max(a, b) == IF a >= b THEN a ELSE b

\* models.py 112-114: OrderBook.best_ask, None for a book without asks.
HasBestAsk(asks) == asks # << >>

\* models.py 122-124: OrderBook.best_ask_price, 1 for a book without asks.
best_ask_price(asks) == IF HasBestAsk(asks) THEN asks[1].price ELSE 100

\* A sum that forgets the NO side.
YesAskOnly(yes_ask, no_ask) == yes_ask

\* scanner.py 103: sum_asks = yes_ask + no_ask
SumAsks(yes_ask, no_ask) == yes_ask + no_ask

\* A position size that ignores max_trade_size.
AllLiquidity(available_liquidity, max_trade_size) == available_liquidity

\* scanner.py 138-141: position_size = min(available_liquidity, max_trade_size)
PositionSize(available_liquidity, max_trade_size) ==
    Min(available_liquidity, max_trade_size)

\* scanner.py 147: net_profit = (gross_edge * position_size) - estimated_gas
NetProfit(gross_edge, position_size, estimated_gas) ==
    (gross_edge * position_size) - estimated_gas

\* scanner.py 161-162, in percent: the edge is in cents, so that
\* (gross_edge / days) * 365 * 100 is gross_edge * 365 / days; the days used
\* divide it exactly.
Apy(gross_edge, days_to_resolution) ==
    (gross_edge * 365) \div Max(days_to_resolution, 1)

\* scanner.py 77-192: detect_arbitrage on the two fetched books; roi, which
\* nothing reads, is left out.
detect_arbitrage(market, id, c) ==
    LET yes_ask == best_ask_price(market.yes_asks)
        no_ask == best_ask_price(market.no_asks)
        sum_asks == SumAsks(yes_ask, no_ask)
        gross_edge == 100 - sum_asks
        yes_liquidity == IF HasBestAsk(market.yes_asks)
                         THEN market.yes_asks[1].size ELSE 0
        no_liquidity == IF HasBestAsk(market.no_asks)
                        THEN market.no_asks[1].size ELSE 0
        available_liquidity == Min(yes_liquidity, no_liquidity)
        position_size == PositionSize(available_liquidity, c.max_trade_size)
        estimated_gas == c.estimated_gas_cost_usd * 2
        net_profit == NetProfit(gross_edge, position_size, estimated_gas)
        apy == Apy(gross_edge, market.days_to_resolution)
    IN  IF ~ HasBestAsk(market.yes_asks) \/ ~ HasBestAsk(market.no_asks)
        THEN None
        ELSE IF sum_asks >= 100 THEN None
        ELSE IF gross_edge < c.min_gross_edge THEN None
        ELSE IF available_liquidity < c.min_liquidity THEN None
        ELSE IF net_profit < c.min_net_profit THEN None
        ELSE IF apy < c.min_apy THEN None
        ELSE [type |-> "ArbitrageOpportunity", market |-> id,
              yes_ask |-> yes_ask, no_ask |-> no_ask,
              gross_edge |-> gross_edge, estimated_gas |-> estimated_gas,
              net_profit |-> net_profit, position_size |-> position_size,
              liquidity |-> available_liquidity, apy |-> apy]

\* scanner.py 194-218: scan_market; every failure ends in None.
scan_market(market, id, outcome, c) ==
    IF outcome = "books" THEN detect_arbitrage(market, id, c) ELSE None

\* A collection that gives up at the first task without an opportunity.
RECURSIVE CollectUntilFailure(_)
CollectUntilFailure(res) ==
    IF res = << >> \/ Head(res).type # "ArbitrageOpportunity" THEN << >>
    ELSE << Head(res) >> \o CollectUntilFailure(Tail(res))

\* scanner.py 253-258: keep the results that are opportunities, in the
\* order of the tasks.
RECURSIVE Collect(_)
Collect(res) ==
    IF res = << >> THEN << >>
    ELSE IF Head(res).type = "ArbitrageOpportunity"
         THEN << Head(res) >> \o Collect(Tail(res))
         ELSE Collect(Tail(res))

\* A key that puts the net profit first.
ProfitFirstKey(opp) == << - opp.net_profit, - opp.apy, - opp.liquidity >>

\* scanner.py 287-291: the sort key
sort_key(opp) == << - opp.apy, - opp.net_profit, - opp.liquidity >>

\* A comparison that also holds between equal keys.
TupleLessOrEqual(a, b) ==
    \/ a[1] < b[1]
    \/ a[1] = b[1] /\ a[2] < b[2]
    \/ a[1] = b[1] /\ a[2] = b[2] /\ a[3] <= b[3]

\* Python's < on tuples of three numbers.
TupleLess(a, b) ==
    \/ a[1] < b[1]
    \/ a[1] = b[1] /\ a[2] < b[2]
    \/ a[1] = b[1] /\ a[2] = b[2] /\ a[3] < b[3]

\* x goes in front of the first element whose key is greater than its own.
RECURSIVE Insert(_, _)
Insert(s, x) ==
    IF s = << >> THEN << x >>
    ELSE IF TupleLess(sort_key(x), sort_key(Head(s)))
         THEN << x >> \o s
         ELSE << Head(s) >> \o Insert(Tail(s), x)

\* Python's sorted(opportunities, key=...): a stable sort.
RECURSIVE sorted(_)
sorted(s) ==
    IF s = << >> THEN << >>
    ELSE Insert(sorted(SubSeq(s, 1, Len(s) - 1)), s[Len(s)])

\* scanner.py 263-295
rank_opportunities(opps) == IF opps = << >> THEN << >> ELSE sorted(opps)

\* An ask that may sit on the bounds of the interval.
AskOutOfClosedRange(ask) == ask < 0 \/ ask > 100

\* risk.py 253, 256: an ask outside the open interval (0, 1)
AskOutOfRange(ask) == ask <= 0 \/ ask >= 100

\* risk.py 235-271: the reason validate_opportunity returns, "none" for a
\* valid opportunity.
validate_opportunity(opp, c) ==
    IF opp.net_profit <= 0 THEN "net_profit"
    ELSE IF AskOutOfRange(opp.yes_ask) THEN "yes_ask"
    ELSE IF AskOutOfRange(opp.no_ask) THEN "no_ask"
    ELSE IF opp.yes_ask + opp.no_ask >= 100 THEN "sum_asks"
    ELSE IF opp.liquidity < c.min_liquidity THEN "liquidity"
    ELSE IF ~ opp.is_active THEN "inactive"
    ELSE "none"

\* The opportunities handed to validate_opportunity.
ValidationInputs ==
    [net_profit : {-1, 0, 18}, yes_ask : {0, 48, 51, 100},
     no_ask : {0, 50, 100}, liquidity : {5, 10}, is_active : BOOLEAN]

\* The RiskManager as the scan and the validation find it.
RiskAtRest ==
    /\ config = LooseConfig
    /\ total_exposure = 0
    /\ RiskConstructed

\* scan_and_rank has been called with a list of markets.
ScanInit ==
    /\ scan_pc = "start"
    /\ \E n \in 0..MaxMarkets : markets \in [1..n -> MarketKinds]
    /\ outcomes = << >>
    /\ results = << >>
    /\ opportunities = << >>
    /\ ranked = << >>
    /\ validation = NoValidation
    /\ ExecIdle
    /\ RiskAtRest
    /\ LiveIdle
    /\ AutoIdle

\* scan_markets, lines 233-250: without markets the scan returns the empty
\* list; otherwise one scan_market task per market is started.
ScanStart ==
    /\ scan_pc = "start"
    /\ IF markets = << >>
       THEN /\ scan_pc' = "rank"
            /\ UNCHANGED << outcomes, results >>
       ELSE /\ scan_pc' = "scanning"
            /\ outcomes' = [i \in DOMAIN markets |-> "pending"]
            /\ results' = [i \in DOMAIN markets |-> Pending]
    /\ UNCHANGED << markets, opportunities, ranked, validation >>
    /\ UNCHANGED nonScanVars

\* One scan_market task runs to its end, whatever the others do.
ScanMarket ==
    /\ scan_pc = "scanning"
    /\ \E i \in DOMAIN markets, outcome \in ScanOutcomes :
          /\ results[i] = Pending
          /\ outcomes' = [outcomes EXCEPT ![i] = outcome]
          /\ results' = [results EXCEPT
                           ![i] = scan_market(markets[i], i, outcome,
                                              ScanConfig)]
    /\ UNCHANGED << scan_pc, markets, opportunities, ranked, validation >>
    /\ UNCHANGED nonScanVars

\* scan_markets, lines 250-261: gather has every task's result.
ScanCollect ==
    /\ scan_pc = "scanning"
    /\ \A i \in DOMAIN results : results[i] # Pending
    /\ opportunities' = Collect(results)
    /\ scan_pc' = "rank"
    /\ UNCHANGED << markets, outcomes, results, ranked, validation >>
    /\ UNCHANGED nonScanVars

\* scan_and_rank, lines 310-319
RankOpportunities ==
    /\ scan_pc = "rank"
    /\ ranked' = rank_opportunities(opportunities)
    /\ scan_pc' = "done"
    /\ UNCHANGED << markets, outcomes, results, opportunities, validation >>
    /\ UNCHANGED nonScanVars

ScanNext ==
    \/ ScanStart
    \/ ScanMarket
    \/ ScanCollect
    \/ RankOpportunities

SpecScan == ScanInit /\ [][ScanNext]_vars

\* validate_opportunity has been called.
ValidateInit ==
    /\ validation \in [pc : {"called"}, valid : {FALSE}, reason : {"none"},
                       opp : ValidationInputs]
    /\ scan_pc = "idle"
    /\ markets = << >>
    /\ outcomes = << >>
    /\ results = << >>
    /\ opportunities = << >>
    /\ ranked = << >>
    /\ ExecIdle
    /\ RiskAtRest
    /\ LiveIdle
    /\ AutoIdle

\* risk.py 235-271: the call returns (valid, reason).
ValidateOpportunity ==
    /\ validation.pc = "called"
    /\ LET reason == validate_opportunity(validation.opp, ScanConfig)
       IN  validation' = [validation EXCEPT !.pc = "returned",
                             !.valid = (reason = "none"), !.reason = reason]
    /\ UNCHANGED << scan_pc, markets, outcomes, results, opportunities,
                    ranked >>
    /\ UNCHANGED nonScanVars

ValidateNext == ValidateOpportunity

SpecValidate == ValidateInit /\ [][ValidateNext]_vars

----------------------------------------------------------------------------
(* main.py: ArbitrageBot.live_trading_mode *)

\* Most execute_arbitrage calls explored in one run of the loop.
MaxExecutions == 3

\* Most opportunities one scan of the loop finds.
MaxFound == 2

\* Line 365: while max_trades == 0 or trades_executed < max_trades
LoopContinues(limit, done) == limit = 0 \/ done < limit

\* A stop that looks at the daily loss only.
LossOnlyStop(pnl, exposure, c) == ~ CanTrade(pnl, c)

\* check_emergency_stop (risk.py 208-233): the daily loss is reached, or
\* exposure_utilization_pct (lines 182-186) is above 95.
EmergencyStop(pnl, exposure, c) ==
    \/ ~ CanTrade(pnl, c)
    \/ (c.max_open_exposure > 0
        /\ exposure * 100 > 95 * c.max_open_exposure)

\* validate_opportunity (risk.py 235-271); other_checks stands for the
\* price, liquidity and market-activity checks on fields not kept here.
ValidOpportunity(opp, other_checks) ==
    /\ ~ (opp.net_profit <= 0)
    /\ ~ (opp.sum_asks >= 100)
    /\ other_checks

\* A loop that goes on to the admission check whatever the validation said.
CheckRegardless(valid) == "check"

\* Lines 392-395: an invalid opportunity is skipped.
NextAfterValidation(valid) == IF valid THEN "check" ELSE "loop"

\* A loop that executes whatever the admission check said.
ExecuteRegardless(allowed) == "execute"

\* Lines 399-402: a denied trade is skipped.
NextAfterRisk(allowed) == IF allowed THEN "execute" ELSE "loop"

\* execute_arbitrage (execution.py 53-163) with dry_run=False: the results
\* it can return; UNWOUND needs config.partial_fill_unwind.
LiveResults(unwind) ==
    IF unwind THEN ExecutionResult ELSE ExecutionResult \ {"UNWOUND"}

TradeAttempted(res) == TRUE

\* Line 411: if result == ExecutionResult.SUCCESS
TradeSucceeded(res) == res = "SUCCESS"

\* execution.py 151-157: PARTIAL_FILL after an unwind was attempted.
UnwindFailure(res, unwind) == res = "PARTIAL_FILL" /\ unwind

\* live_trading_mode has been called and confirmed (lines 354-363).
LiveInit ==
    /\ live_pc = "loop"
    /\ max_trades \in 0..2
    /\ trades_executed = 0
    /\ best_opp = IdleCheck.opp
    /\ executions = 0
    /\ unwindFailed = FALSE
    /\ consecutiveFailed = 0
    /\ cycle = NoCycle
    /\ ScanIdle
    /\ AutoIdle
    /\ config \in {c \in Configs : c.max_trade_size = LooseConfig.max_trade_size}
    /\ total_exposure = 0
    /\ RiskConstructed
    /\ pc = "idle"
    /\ dry_run = FALSE
    /\ partial_fill_unwind \in BOOLEAN
    /\ order_timeout_seconds = 0
    /\ bids = [l \in Legs |-> FALSE]
    /\ gw = [s \in Slots |-> "NONE"]
    /\ placed = [s \in Slots |-> "idle"]
    /\ trade_pair = NoPair
    /\ polled = [l \in Legs |-> "idle"]
    /\ elapsed = 0
    /\ loopExit = "none"
    /\ cancelReq = [s \in Slots |-> 0]
    /\ cancelRuns = 0
    /\ statusReqs = 0
    /\ bookReqs = 0
    /\ waitResult = "NONE"
    /\ unwindLeg = "NONE"
    /\ unwindResult = "NONE"
    /\ positions = {}
    /\ ledgerFailed = FALSE
    /\ statusFailed = FALSE
    /\ result = "NONE"
    /\ returned_pair = FALSE
    /\ gw_filled = [s \in Slots |-> 0]
    /\ bid_price = [l \in Legs |-> 0]
    /\ unwind_order = NoOrder

\* What the loop's steps leave alone of the executor's and the gate's state.
LiveFrame ==
    UNCHANGED << pc, dry_run, partial_fill_unwind, order_timeout_seconds,
                 bids, gw, placed, trade_pair, polled, elapsed, loopExit,
                 cancelReq, cancelRuns, statusReqs, bookReqs, waitResult,
                 unwindLeg, unwindResult, positions, ledgerFailed,
                 statusFailed, returned_pair, gw_filled, bid_price,
                 unwind_order, config, today, check,
                 can_trade, lossBlockedDay, max_trades, scan_pc, markets,
                 outcomes, results, opportunities, validation, autoVars >>

\* Lines 365-374: the loop test and the emergency-stop check, whose
\* get_risk_stats starts with the daily reset.  A new cycle starts: the
\* last cycle's list of opportunities is not read again.
LiveLoopTest ==
    /\ live_pc = "loop"
    /\ LET cnt == check_daily_reset(today)
       IN  IF ~ LoopContinues(max_trades, trades_executed)
           THEN /\ live_pc' = "finished"
                /\ cycle' = NoCycle
                /\ UNCHANGED << daily_trades, daily_pnl, daily_reset_time,
                                opDay >>
           ELSE /\ daily_trades' = cnt.trades
                /\ daily_pnl' = cnt.pnl
                /\ daily_reset_time' = cnt.reset
                /\ opDay' = today
                /\ cycle' = [NoCycle EXCEPT !.stop_checked = TRUE]
                /\ live_pc' = IF EmergencyStop(cnt.pnl, total_exposure, config)
                              THEN "stopped" ELSE "scan"
    /\ lastCheck' = NoCheck
    /\ ranked' = << >>
    /\ UNCHANGED << trades_executed, best_opp, executions, unwindFailed,
                    consecutiveFailed, result, total_exposure, callsToday,
                    pnlToday >>
    /\ LiveFrame

\* The opportunities a scan of the loop finds: two shares each, seven days
\* from resolution.
LiveOpportunities ==
    {o \in Opportunities : o.position_size = 2 /\ o.days_to_resolution = 7}

\* The lists scan_markets can hand to rank_opportunities.
FoundLists ==
    UNION { [1..n -> LiveOpportunities] : n \in 0..MaxFound }

\* A choice of the last opportunity of the list.
LastOf(opps) == opps[Len(opps)]

\* Line 388: best_opp = opportunities[0]
BestOf(opps) == opps[1]

\* Lines 377-388: scan_and_rank; with no opportunity the loop sleeps and
\* starts over, otherwise the first of the ranked list is taken.
LiveScan ==
    /\ live_pc = "scan"
    /\ \E found \in FoundLists :
          LET opps == rank_opportunities(found)
          IN  /\ ranked' = opps
              /\ IF opps = << >>
                 THEN /\ live_pc' = "loop"
                      /\ UNCHANGED best_opp
                 ELSE /\ best_opp' = BestOf(opps)
                      /\ live_pc' = "validate"
    /\ UNCHANGED << cycle, trades_executed, executions, unwindFailed,
                    consecutiveFailed, result, total_exposure, lastCheck,
                    callsToday, pnlToday, daily_trades, daily_pnl,
                    daily_reset_time, opDay >>
    /\ LiveFrame

\* Lines 391-395: validate_opportunity; an invalid opportunity is skipped.
\* The list of opportunities is not read after line 388.
LiveValidate ==
    /\ live_pc = "validate"
    /\ \E other_checks \in BOOLEAN :
          LET valid == ValidOpportunity(best_opp, other_checks)
          IN  /\ cycle' = [cycle EXCEPT !.validated = valid]
              /\ live_pc' = NextAfterValidation(valid)
    /\ ranked' = << >>
    /\ UNCHANGED << trades_executed, best_opp, executions, unwindFailed,
                    consecutiveFailed, result, total_exposure, lastCheck,
                    callsToday, pnlToday, daily_trades, daily_pnl,
                    daily_reset_time, opDay >>
    /\ LiveFrame

\* Lines 398-402: check_trade_allowed; a denied trade is skipped.  Nothing
\* else runs on the event loop while the call awaits the ledger.
LiveCheckRisk ==
    /\ live_pc = "check"
    /\ LET cnt == check_daily_reset(today)
           before == ChecksBeforeLedger(config, best_opp, cnt.pnl)
           reason == IF before # "none" THEN before
                     ELSE ChecksAfterLedger(config, best_opp, total_exposure)
       IN  /\ daily_trades' = cnt.trades
           /\ daily_pnl' = cnt.pnl
           /\ daily_reset_time' = cnt.reset
           /\ lastCheck' = [day |-> today, pnl |-> cnt.pnl, hist |-> pnlToday,
                            exposure |-> total_exposure,
                            allowed |-> (reason = "none"), reason |-> reason,
                            opp |-> best_opp]
           /\ cycle' = [cycle EXCEPT !.allowed = (reason = "none")]
           /\ live_pc' = NextAfterRisk(reason = "none")
    /\ opDay' = today
    /\ UNCHANGED << ranked, trades_executed, best_opp, executions, unwindFailed,
                    consecutiveFailed, result, total_exposure, callsToday,
                    pnlToday >>
    /\ LiveFrame

\* Lines 406-421: execute_arbitrage(best_opp, dry_run=False) and what the
\* loop does with the result: SUCCESS is counted and recorded with
\* record_trade_result(best_opp.net_profit), any other result is printed.
\* recorded: did _record_successful_trade save the positions.
LiveExecute ==
    /\ live_pc = "execute"
    /\ executions < MaxExecutions
    /\ \E res \in LiveResults(partial_fill_unwind), recorded \in BOOLEAN :
          LET cnt == check_daily_reset(today)
          IN  /\ result' = res
              /\ unwindFailed' =
                    (unwindFailed \/ UnwindFailure(res, partial_fill_unwind))
              /\ consecutiveFailed' =
                    IF res = "FAILED" THEN consecutiveFailed + 1 ELSE 0
              /\ IF TradeSucceeded(res)
                 THEN /\ trades_executed' = trades_executed + 1
                      /\ daily_trades' = cnt.trades + 1
                      /\ daily_pnl' = AddPnl(cnt.pnl, best_opp.net_profit)
                      /\ daily_reset_time' = cnt.reset
                      /\ callsToday' = callsToday + 1
                      /\ pnlToday' = pnlToday + best_opp.net_profit
                      /\ opDay' = today
                      /\ total_exposure' =
                            IF recorded
                            THEN total_exposure
                                 + best_opp.position_size * best_opp.sum_asks
                            ELSE total_exposure
                 ELSE UNCHANGED << trades_executed, daily_trades, daily_pnl,
                                   daily_reset_time, callsToday, pnlToday,
                                   opDay, total_exposure >>
    /\ executions' = executions + 1
    /\ cycle' = [cycle EXCEPT !.execs = cycle.execs + 1]
    /\ live_pc' = "stats"
    /\ UNCHANGED << best_opp, lastCheck, ranked >>
    /\ LiveFrame

\* Lines 424-432: get_risk_stats, with its daily reset, and the sleep.
LiveStats ==
    /\ live_pc = "stats"
    /\ LET cnt == check_daily_reset(today)
       IN  /\ daily_trades' = cnt.trades
           /\ daily_pnl' = cnt.pnl
           /\ daily_reset_time' = cnt.reset
    /\ opDay' = today
    /\ live_pc' = "loop"
    /\ UNCHANGED << cycle, ranked, trades_executed, best_opp, executions,
                    unwindFailed, consecutiveFailed, result, total_exposure,
                    lastCheck, callsToday, pnlToday >>
    /\ LiveFrame

LiveNext ==
    \/ LiveLoopTest
    \/ LiveScan
    \/ LiveValidate
    \/ LiveCheckRisk
    \/ LiveExecute
    \/ LiveStats
    \/ Midnight

SpecLive == LiveInit /\ [][LiveNext]_vars

----------------------------------------------------------------------------
(* auto_executor.py: AutoExecutor *)

\* Last tick of the clock explored.
MaxClock == 3

\* Most execute_copy_signal calls awaiting place_limit_order at once.
MaxInFlight == 2

\* Line 107: time_since < 3600, with a clock tick of 1800 s.
TicksPerHour == 2

\* Line 56: self.max_consecutive_failures = 3
max_consecutive_failures == 3

\* config.py 181-184: min_confidence_score, in percent.
min_confidence_score == 70

\* config.py 167-170: max_copy_size, in dollars.
max_copy_size == 50

\* config.py 189-192: min_position_size, in dollars.
min_position_size == 5

\* CopyTradeSignal: the fields execute_copy_signal reads.
Signals ==
    [market_id : AutoMarkets, confidence_score : {60, 80},
     recommended_capital : {2, 25}]

\* Lines 80-85: the cooldown after a loss.
InCooldown(loss_time, now) ==
    loss_time # NoTime /\ now - loss_time < TicksPerHour

\* Line 88: self.consecutive_failures >= self.max_consecutive_failures
KillSwitch(failures) == failures >= max_consecutive_failures

\* _check_risk_limits (lines 158-200): the position is neither too large nor
\* too small; _get_daily_pnl, _count_open_positions and
\* _has_position_in_market answer 0, 0 and False (202-230), so the other
\* three limits pass.
RiskLimitsPass(sig) ==
    /\ ~ (sig.recommended_capital > max_copy_size)
    /\ ~ (sig.recommended_capital < min_position_size)

\* Lines 104-109: the market was executed less than an hour ago.
Duplicate(executed, m, now) ==
    executed[m] # NoTime /\ now - executed[m] < TicksPerHour

\* Lines 75-112: what execute_copy_signal does before it executes: the
\* result it returns at once, "SIMULATED" for paper mode, "PLACE" when it
\* goes on to place_limit_order.  No step of these lines suspends the call.
EntryResult(on, loss_time, failures, executed, now, mode, sig) ==
    IF ~ on THEN "SKIPPED"
    ELSE IF InCooldown(loss_time, now) THEN "REJECTED"
    ELSE IF KillSwitch(failures) THEN "REJECTED"
    ELSE IF sig.confidence_score < min_confidence_score THEN "SKIPPED"
    ELSE IF ~ RiskLimitsPass(sig) THEN "REJECTED"
    ELSE IF Duplicate(executed, sig.market_id, now) THEN "REJECTED"
    ELSE IF mode = "paper" THEN "SIMULATED"
    ELSE "PLACE"

\* Calls that await place_limit_order.
InFlight == placing.m1 + placing.m2

\* An AutoExecutor has been constructed over some configuration.
AutoInit ==
    /\ enabled \in BOOLEAN
    /\ trading_mode \in {"paper", "live"}
    /\ consecutive_failures = 0
    /\ last_loss_time = NoTime
    /\ executed_trades = [m \in AutoMarkets |-> NoTime]
    /\ clock = 0
    /\ placing = [m \in AutoMarkets |-> 0]
    /\ lastReturn = NoReturn
    /\ tripped = FALSE
    /\ ExecIdle
    /\ RiskAtRest
    /\ LiveIdle
    /\ ScanIdle

\* execute_copy_signal, lines 75-134: the call runs to its return, or to the
\* await of place_limit_order (line 134), where other calls can run.
ExecuteCopySignal ==
    /\ InFlight < MaxInFlight
    /\ \E sig \in Signals :
          LET r == EntryResult(enabled, last_loss_time, consecutive_failures,
                               executed_trades, clock, trading_mode, sig)
              m == sig.market_id
          IN  /\ executed_trades' =
                    IF r = "SIMULATED"
                    THEN [executed_trades EXCEPT ![m] = clock]
                    ELSE executed_trades
              /\ placing' =
                    IF r = "PLACE"
                    THEN [placing EXCEPT ![m] = placing[m] + 1]
                    ELSE placing
              /\ lastReturn' =
                    [kind |-> "call", market |-> m,
                     result |-> IF r = "PLACE" THEN "PENDING" ELSE r,
                     posted |-> (r = "PLACE")]
    /\ UNCHANGED << enabled, trading_mode, consecutive_failures,
                    last_loss_time, clock, tripped >>
    /\ UNCHANGED nonAutoVars

\* Lines 134-156: place_limit_order has answered.  An Order is tracked, the
\* failure count is reset and SUCCESS returned (142-151; _save_execution
\* does not suspend and swallows its errors); with None line 142 raises, and
\* the handler of any error counts a failure and returns FAILED (153-156).
PlaceReturns(m) ==
    /\ placing[m] > 0
    /\ placing' = [placing EXCEPT ![m] = placing[m] - 1]
    /\ \E outcome \in PlaceOutcomes :
          IF outcome = "order"
          THEN /\ executed_trades' = [executed_trades EXCEPT ![m] = clock]
               /\ consecutive_failures' = 0
               /\ lastReturn' = [kind |-> "place", market |-> m,
                                 result |-> "SUCCESS", posted |-> FALSE]
               /\ UNCHANGED tripped
          ELSE /\ consecutive_failures' = consecutive_failures + 1
               /\ tripped' = (tripped \/ KillSwitch(consecutive_failures + 1))
               /\ lastReturn' = [kind |-> "place", market |-> m,
                                 result |-> "FAILED", posted |-> FALSE]
               /\ UNCHANGED executed_trades
    /\ UNCHANGED << enabled, trading_mode, last_loss_time, clock >>
    /\ UNCHANGED nonAutoVars

PlaceLimitOrderReturns == \E m \in AutoMarkets : PlaceReturns(m)

\* reset_kill_switch, lines 257-261.
ResetKillSwitch ==
    /\ consecutive_failures' = 0
    /\ last_loss_time' = NoTime
    /\ tripped' = FALSE
    /\ lastReturn' = [NoReturn EXCEPT !.kind = "reset"]
    /\ UNCHANGED << enabled, trading_mode, executed_trades, clock, placing >>
    /\ UNCHANGED nonAutoVars

\* The clock: half an hour passes.
AutoTick ==
    /\ clock < MaxClock
    /\ clock' = clock + 1
    /\ lastReturn' = NoReturn
    /\ UNCHANGED << enabled, trading_mode, consecutive_failures,
                    last_loss_time, executed_trades, placing, tripped >>
    /\ UNCHANGED nonAutoVars

AutoNext ==
    \/ ExecuteCopySignal
    \/ PlaceLimitOrderReturns
    \/ ResetKillSwitch
    \/ AutoTick

SpecAuto == AutoInit /\ [][AutoNext]_vars

----------------------------------------------------------------------------
(* Vocabulary of the properties *)

Done == pc = "done"

BothPlaced == placed.YES = "order" /\ placed.NO = "order"

SubmissionFailed(leg) == placed[leg] \in {"none", "exc"}

\* The gateway holds the leg's order filled completely.
GwFilled(leg) == gw[leg] = "FILLED"

\* Exactly this leg is filled at the gateway.
OneSidedFill(leg) == GwFilled(leg) /\ ~ GwFilled(Other(leg))

CancelRequested(leg) == cancelReq[leg] > 0

NoCancelRequest == \A s \in Slots : cancelReq[s] = 0

TimedOut == ~ LoopCondition(elapsed, order_timeout_seconds)

----------------------------------------------------------------------------
(* C1 *)

\* C1: when a non-dry-run execute_arbitrage has returned, each of the two
\* buy legs it placed is filled at the gateway or has had a cancel request
\* issued (stated for the attempts in which both legs were placed and no
\* ledger write or status check failed).
C1_NoLegLeftOpen ==
    (Done /\ ~ dry_run /\ BothPlaced /\ ~ ledgerFailed /\ ~ statusFailed) =>
        \A l \in Legs : GwFilled(l) \/ CancelRequested(l)

----------------------------------------------------------------------------
(* C2 *)

\* C2: if exactly one leg submission failed (raised or gave no order) and
\* the other leg was placed, the attempt returns FAILED and a cancel was
\* requested for the placed leg, whichever leg failed.
C2_SingleFailureCancelled ==
    \A l \in Legs :
        (Done /\ placed[l] = "order" /\ SubmissionFailed(Other(l))) =>
            (result = "FAILED" /\ CancelRequested(l))

----------------------------------------------------------------------------
(* C3 *)

\* C3: with partial_fill_unwind enabled, an attempt that ends with exactly
\* one buy leg filled at the gateway has attempted to unwind that leg and
\* did not end as TIMEOUT, SUCCESS or FAILED (stated for the attempts with a
\* positive timeout in which both legs were placed and no ledger write or
\* status check failed).
C3_OneSidedFillUnwound ==
    \A l \in Legs :
        (Done /\ ~ dry_run /\ partial_fill_unwind /\ order_timeout_seconds > 0
           /\ BothPlaced /\ ~ ledgerFailed /\ ~ statusFailed
           /\ OneSidedFill(l)) =>
            (unwindLeg = l /\ result \notin {"TIMEOUT", "SUCCESS", "FAILED"})

----------------------------------------------------------------------------
(* C4 *)

\* C4: with unwind enabled, an unwind that did not succeed ends in an
\* explicit UNWIND_FAILED result, distinct from the PARTIAL_FILL result an
\* attempt with unwind disabled returns.
C4_UnwindFailureExplicit ==
    (Done /\ partial_fill_unwind /\ unwindResult = "False") =>
        (result = "UNWIND_FAILED" /\ result # "PARTIAL_FILL")

----------------------------------------------------------------------------
(* C5 *)

\* C5: once a poll has seen exactly one leg filled the loop goes on polling
\* until the timeout, so the loop is left with a one-sided fill only when
\* the timeout has elapsed, and an attempt whose two legs are filled at the
\* gateway before the timeout, with no step failing, ends SUCCESS.
C5_PartialKeepsPolling ==
    /\ (loopExit # "none" /\ is_partially_filled(trade_pair)
          /\ ~ statusFailed) => TimedOut
    /\ (Done /\ BothPlaced /\ ~ ledgerFailed /\ ~ statusFailed /\ ~ TimedOut
          /\ GwFilled("YES") /\ GwFilled("NO")) => result = "SUCCESS"

----------------------------------------------------------------------------
(* C6 *)

----------------------------------------------------------------------------
(* C7 *)

\* C7: if a status check failed or a ledger write raised after both legs
\* were placed, the attempt returns FAILED and a cancel was requested for
\* both placed legs.
C7_FailureRollsBack ==
    (Done /\ BothPlaced /\ (ledgerFailed \/ statusFailed)) =>
        (result = "FAILED" /\ \A l \in Legs : CancelRequested(l))

----------------------------------------------------------------------------
(* C8 *)

----------------------------------------------------------------------------
(* C9 *)

\* C9: if exactly one leg is filled at the gateway when an attempt with a
\* positive timeout ends and no ledger write or status check failed, then
\* with unwind disabled the
\* result is PARTIAL_FILL, and with unwind enabled and a bid in the filled
\* token's book the result is UNWOUND (the case where the unwind itself was
\* tried and failed is left out).
C9_ScenarioD ==
    \A l \in Legs :
        (Done /\ BothPlaced /\ OneSidedFill(l) /\ order_timeout_seconds > 0
           /\ ~ ledgerFailed /\ ~ statusFailed) =>
            IF partial_fill_unwind
            THEN (bids[l] /\ unwindResult # "False") => result = "UNWOUND"
            ELSE result = "PARTIAL_FILL"

----------------------------------------------------------------------------
(* C10 *)

\* C10: if both leg submissions failed the attempt returns FAILED with no
\* trade pair, sends no further gateway request (cancel, status, order book
\* or order) and the gateway holds no order of the attempt.
C10_BothSubmissionsFail ==
    (Done /\ SubmissionFailed("YES") /\ SubmissionFailed("NO")) =>
        /\ result = "FAILED"
        /\ ~ returned_pair
        /\ NoCancelRequest
        /\ statusReqs = 0
        /\ bookReqs = 0
        /\ placed.UNWIND = "idle"
        /\ \A s \in Slots : gw[s] = "NONE"

\* C10 witness: an attempt whose two submissions failed has ended.
C10_Witness ==
    /\ Done
    /\ SubmissionFailed("YES")
    /\ SubmissionFailed("NO")
    /\ result = "FAILED"

----------------------------------------------------------------------------
(* C11 *)
\* The two placement calls settle in either order and the engine goes on
\* only when both have settled: while one call is still in flight the
\* attempt stays at the gather, the call in flight can still complete, no
\* cancel has been sent and no status check has been made, whatever the
\* other call returned; and once a status check has been made, or the
\* attempt has reached the ledger or the polling loop, both calls have
\* returned an order.
C11_FanIn ==
    /\ \A l \in Legs :
          placed[l] = "pending" =>
             /\ pc = "placing"
             /\ ENABLED PlaceLeg(l)
             /\ NoCancelRequest
             /\ statusReqs = 0
             /\ result = "NONE"
    /\ (statusReqs > 0 \/ pc \in {"save", "loop", "status", "timeout"}) =>
          BothPlaced

\* The NO submission has failed while the YES submission is still in flight.
C11_Witness ==
    /\ SubmissionFailed("NO")
    /\ placed.YES = "pending"
    /\ ENABLED PlaceLeg("YES")

----------------------------------------------------------------------------
(* C12 *)
\* A finished live attempt has saved a YES and a NO position if its result
\* is SUCCESS, and no position otherwise.
C12_PositionsIffSuccess ==
    (Done /\ ~ dry_run) =>
        IF result = "SUCCESS" THEN positions = Legs ELSE positions = {}

----------------------------------------------------------------------------
(* C13 *)
\* Any step of the engine proper (the gateway's own moves excluded).
EngineStep ==
    \/ Start \/ PlaceYes \/ PlaceNo \/ CheckPlaced \/ SaveOrders \/ LoopHead
    \/ GetStatusYes \/ GetStatusNo \/ PollProcess \/ CancelUnfilled
    \/ AfterWait \/ UnwindGetOrderbook \/ UnwindPlace \/ UnwindCheck

\* No error leaves execute_arbitrage: the attempt is never left by a raise,
\* it can always take a step until it has returned, what it returns is a
\* typed result with a trade pair or None, and a failed placement or a
\* failed order write has been answered with the result FAILED and None.
C13_NoExceptionPropagates ==
    /\ pc # "raised"
    /\ ~ Done => ENABLED EngineStep
    /\ Done => (result \in ExecutionResult /\ returned_pair \in BOOLEAN)
    /\ (Done /\ \E l \in Legs : SubmissionFailed(l)) =>
          (result = "FAILED" /\ ~ returned_pair)
    /\ (ledgerFailed /\ waitResult # "SUCCESS") =>
          (Done /\ result = "FAILED" /\ ~ returned_pair)

\* A ledger write raised after both orders were placed, and the attempt has
\* returned FAILED.
C13_Witness ==
    /\ Done
    /\ BothPlaced
    /\ ledgerFailed
    /\ waitResult # "SUCCESS"
    /\ result = "FAILED"

----------------------------------------------------------------------------
(* C14 *)
\* Once an attempt of the live loop has ended in a failed unwind, or two
\* attempts in a row have ended FAILED, the loop makes no further
\* execute_arbitrage call.
C14_CircuitBreaker ==
    [][(unwindFailed \/ consecutiveFailed >= 2) =>
          executions' = executions]_vars

----------------------------------------------------------------------------
(* Vocabulary of the risk gate's properties *)

\* A check_trade_allowed call has just returned.
Checked == lastCheck.day >= 0

\* The six admission rules, numbered in their stated order: does rule i fail on
\* what the call chk read.
RuleFails(i, chk, c) ==
    CASE i = 1 -> chk.opp.position_size > c.max_trade_size
      [] i = 2 -> chk.pnl < - c.max_daily_loss
      [] i = 3 -> chk.exposure + chk.opp.position_size * chk.opp.sum_asks
                     > c.max_open_exposure
      [] i = 4 -> chk.opp.net_profit < c.min_net_profit
      [] i = 5 -> chk.opp.apy < c.min_apy
      [] i = 6 -> chk.opp.days_to_resolution > c.max_days_to_resolution

RuleOrder ==
    << "trade_size", "daily_loss", "exposure", "net_profit", "apy",
       "days_to_resolution" >>

FailingRules(chk, c) == {i \in 1..6 : RuleFails(i, chk, c)}

FirstOf(rules) == CHOOSE i \in rules : \A j \in rules : i <= j

\* c2 differs from c in one threshold, and is tighter there.
Tightened(c, c2) ==
    /\ Cardinality({f \in DOMAIN c : c2[f] # c[f]}) = 1
    /\ c2.max_trade_size <= c.max_trade_size
    /\ c2.max_daily_loss <= c.max_daily_loss
    /\ c2.max_open_exposure <= c.max_open_exposure
    /\ c2.max_days_to_resolution <= c.max_days_to_resolution
    /\ c2.min_net_profit >= c.min_net_profit
    /\ c2.min_apy >= c.min_apy

----------------------------------------------------------------------------
(* C15 *)
\* A check_trade_allowed call that returned was allowed, with no reason, if
\* none of the six rules failed on what it read, and was otherwise denied
\* with the reason of the first failing rule in the order trade size, daily
\* loss, open exposure, net profit, APY, days to resolution.
C15_FirstFailingRule ==
    Checked =>
        LET failing == FailingRules(lastCheck, config)
        IN  IF failing = {}
            THEN lastCheck.allowed /\ lastCheck.reason = "none"
            ELSE /\ ~ lastCheck.allowed
                 /\ lastCheck.reason = RuleOrder[FirstOf(failing)]

\* A call was denied for the net profit although the APY or the resolution
\* rule failed too.
C15_Witness ==
    /\ Checked
    /\ lastCheck.reason = "net_profit"
    /\ Cardinality(FailingRules(lastCheck, config)) >= 2

----------------------------------------------------------------------------
----------------------------------------------------------------------------
(* C17 *)
\* When the results recorded since midnight add up to exactly minus
\* max_daily_loss, a check_trade_allowed call made that day is denied for
\* the daily loss (stated for the calls on which no other rule fails, so
\* that the daily loss is the only reason there can be).
C17_LimitHitDenies ==
    (/\ Checked
     /\ lastCheck.hist = - config.max_daily_loss
     /\ FailingRules(lastCheck, config) \subseteq {2}) =>
        (~ lastCheck.allowed /\ lastCheck.reason = "daily_loss")

----------------------------------------------------------------------------
(* C18 *)
\* Whenever the counters belong to the current day, daily_trades is the
\* number of record_trade_result calls made since midnight and daily_pnl is
\* the sum of their net_pnl arguments, whatever other calls were in flight.
C18_NoLostUpdate ==
    daily_reset_time = today =>
        (daily_trades = callsToday /\ daily_pnl = pnlToday)

\* Two results were recorded on a day after the first while an admission
\* check was waiting for the ledger.
C18_Witness ==
    /\ today > 0
    /\ daily_reset_time = today
    /\ check.pc = "ledger"
    /\ callsToday = 2
    /\ daily_trades = 2

----------------------------------------------------------------------------
(* C19 *)
\* After the first operation of a day the counters belong to that day and
\* count from zero; the daily PnL an admission check reads is the sum of
\* the results recorded on the day of the check alone; and while the day
\* does not change the counters are never reset.
C19_DailyReset ==
    /\ [](opDay = today =>
             /\ daily_reset_time = today
             /\ (callsToday = 0 => (daily_trades = 0 /\ daily_pnl = 0)))
    /\ [](Checked => lastCheck.pnl = lastCheck.hist)
    /\ [][(today' = today /\ daily_reset_time = today) =>
             /\ daily_reset_time' = daily_reset_time
             /\ daily_trades' >= daily_trades]_vars

\* A trade is allowed on the day after a day on which the gate denied for
\* the daily loss.
C19_Witness ==
    /\ Checked
    /\ lastCheck.day = today
    /\ lastCheck.allowed
    /\ lossBlockedDay = today - 1
    /\ lossBlockedDay >= 0

----------------------------------------------------------------------------
(* C20 *)
\* A check_trade_allowed call that was denied would have been denied as well
\* under any thresholds that differ from the configured ones in a single,
\* tighter threshold, for the same opportunity, daily PnL and exposure.
C20_Monotonic ==
    (Checked /\ ~ lastCheck.allowed) =>
        \A c2 \in Thresholds :
            Tightened(config, c2) =>
                ~ Allowed(c2, lastCheck.opp, lastCheck.pnl, lastCheck.exposure)

\* A trade denied for its net profit under the loosest thresholds.
C20_Witness ==
    /\ Checked
    /\ config = LooseConfig
    /\ lastCheck.reason = "net_profit"
    /\ \E c2 \in Thresholds : Tightened(config, c2)

----------------------------------------------------------------------------
(* C21 *)
\* A check_trade_allowed call for a position size above max_trade_size is
\* denied with the trade size as its reason, whatever the daily PnL, the
\* exposure and the other fields of the opportunity are; a call for a size
\* equal to or below max_trade_size is never denied for the trade size.
C21_TradeSizeRule ==
    Checked =>
        /\ (lastCheck.opp.position_size > config.max_trade_size) =>
              (~ lastCheck.allowed /\ lastCheck.reason = "trade_size")
        /\ (lastCheck.opp.position_size <= config.max_trade_size) =>
              lastCheck.reason # "trade_size"

\* An oversized trade is denied for its size while the daily loss rule fails
\* as well.
C21_Witness ==
    /\ Checked
    /\ lastCheck.opp.position_size > config.max_trade_size
    /\ lastCheck.pnl < - config.max_daily_loss
    /\ lastCheck.reason = "trade_size"

\* A trade of exactly max_trade_size is allowed.
C21_WitnessEqual ==
    /\ Checked
    /\ lastCheck.opp.position_size = config.max_trade_size
    /\ lastCheck.allowed

----------------------------------------------------------------------------
(* C30 *)
\* The engine's steps are taken whenever they stay possible: an awaited
\* gateway or ledger call returns (the client gives up after its HTTP
\* timeout and retries) and the event loop then resumes the attempt.  The
\* gateway's own moves are under no such obligation.
SpecFair == Spec /\ WF_vars(EngineStep)

\* Polling rounds started so far: each round sends two status requests, the
\* unwind sends one more.
PollingRequests == statusReqs - (IF unwindResult \in {"True", "False"}
                                    /\ placed.UNWIND = "order" THEN 1 ELSE 0)

\* The polling loop makes at most order_timeout_seconds / check_interval
\* rounds (none for a timeout of zero), and every attempt returns a result,
\* whatever the gateway answers.
C30_PollingTerminates ==
    /\ [](PollingRequests <= 2 * order_timeout_seconds * TicksPerSecond)
    /\ [](elapsed <= order_timeout_seconds * TicksPerSecond)
    /\ <>(Done /\ result \in ExecutionResult)

\* An attempt whose status checks failed ran into the timeout after the full
\* number of rounds and returned TIMEOUT.
C30_Witness ==
    /\ Done
    /\ order_timeout_seconds > 0
    /\ statusFailed
    /\ trade_pair = [YES |-> "PENDING", NO |-> "PENDING"]
    /\ statusReqs = 2 * order_timeout_seconds * TicksPerSecond
    /\ result = "TIMEOUT"

----------------------------------------------------------------------------
(* Vocabulary of the scanner's properties *)

\* The scan tasks that returned an opportunity.
Emitted == {i \in DOMAIN results : results[i].type = "ArbitrageOpportunity"}

\* The market's books were fetched and detect_arbitrage ran on them.
Evaluated(i) == i \in DOMAIN outcomes /\ outcomes[i] = "books"

\* The best asks of the market's two books add up to less than 1.
BestAsksBelowOne(m) ==
    /\ m.yes_asks # << >>
    /\ m.no_asks # << >>
    /\ m.yes_asks[1].price + m.no_asks[1].price < 100

\* a and b are equal on the three ranking keys.
SameRank(a, b) ==
    a.apy = b.apy /\ a.net_profit = b.net_profit /\ a.liquidity = b.liquidity

\* a is ranked before b, or level with it.
RankedBefore(a, b) ==
    \/ a.apy > b.apy
    \/ a.apy = b.apy /\ a.net_profit > b.net_profit
    \/ a.apy = b.apy /\ a.net_profit = b.net_profit
       /\ a.liquidity >= b.liquidity

\* How often x occurs in the list.
Occurrences(list, x) == Cardinality({i \in DOMAIN list : list[i] = x})

\* The place of x in a list that holds it once.
PlaceIn(list, x) == CHOOSE i \in DOMAIN list : list[i] = x

----------------------------------------------------------------------------
(* C22 *)

\* What the validation is stated to reject.
StatedInvalid(o) ==
    \/ o.net_profit <= 0
    \/ ~ (0 < o.yes_ask /\ o.yes_ask < 100)
    \/ ~ (0 < o.no_ask /\ o.no_ask < 100)
    \/ o.yes_ask + o.no_ask >= 100
    \/ o.liquidity < ScanConfig.min_liquidity
    \/ ~ o.is_active

\* C22: validate_opportunity returns invalid exactly when the net profit is
\* at most 0, or an ask is outside the open interval (0, 1), or the asks add
\* up to 1 or more, or the liquidity is below min_liquidity, or the market
\* is no longer active; a valid opportunity comes back without a reason;
\* and the call changes nothing of the risk manager's, the executor's or
\* the loop's state.
C22_ValidateOpportunity ==
    /\ [](validation.pc = "returned" =>
             /\ validation.valid <=> ~ StatedInvalid(validation.opp)
             /\ validation.valid <=> (validation.reason = "none"))
    /\ [][validation' # validation => UNCHANGED nonScanVars]_vars

C22_Witness ==
    /\ validation.pc = "returned"
    /\ ~ validation.valid
    /\ validation.reason = "sum_asks"
    /\ validation.opp.yes_ask = 51
    /\ validation.opp.no_ask = 50

----------------------------------------------------------------------------
(* C24 *)

\* C24: every opportunity detect_arbitrage emits carries the best asks of
\* its market, they add up to less than 1, and its gross edge is exactly 1
\* minus their sum; a market whose best asks add up to 1 or more, or with
\* a book without asks, yields None.
C24_EdgeOfEmitted ==
    /\ \A i \in Emitted :
          LET r == results[i]
          IN  /\ Evaluated(i)
              /\ BestAsksBelowOne(markets[i])
              /\ r.yes_ask = markets[i].yes_asks[1].price
              /\ r.no_ask = markets[i].no_asks[1].price
              /\ r.yes_ask + r.no_ask < 100
              /\ r.gross_edge = 100 - (r.yes_ask + r.no_ask)
    /\ \A i \in DOMAIN results :
          (Evaluated(i) /\ ~ BestAsksBelowOne(markets[i]))
              => results[i] = None

C24_Witness ==
    \E i, j, k \in DOMAIN results :
        /\ i \in Emitted
        /\ results[i].yes_ask = 48
        /\ results[i].no_ask = 50
        /\ results[i].gross_edge = 2
        /\ Evaluated(j)
        /\ markets[j].yes_asks = << Ask(51, 100) >>
        /\ markets[j].no_asks = << Ask(50, 100) >>
        /\ results[j] = None
        /\ Evaluated(k)
        /\ markets[k].yes_asks = << >>
        /\ results[k] = None

----------------------------------------------------------------------------
(* C25 *)

\* C25: every opportunity detect_arbitrage emits has the smaller of the two
\* top-of-book sizes as its liquidity, the smaller of liquidity and
\* max_trade_size as its position size, gross_edge * position_size minus
\* two per-leg costs as its net profit, and a net profit of min_net_profit
\* or more; asks of 0.48 and 0.50 with 100 shares each give size 100 and
\* net profit 1.98.
C25_SizeAndNetProfit ==
    \A i \in Emitted :
        LET r == results[i]
            m == markets[i]
        IN  /\ r.liquidity = Min(m.yes_asks[1].size, m.no_asks[1].size)
            /\ r.position_size = Min(r.liquidity, ScanConfig.max_trade_size)
            /\ r.net_profit =
                  r.gross_edge * r.position_size
                  - 2 * ScanConfig.estimated_gas_cost_usd
            /\ r.net_profit >= ScanConfig.min_net_profit
            /\ (m.yes_asks = << Ask(48, 100) >> /\ m.no_asks = << Ask(50, 100) >>)
                  => (r.position_size = 100 /\ r.net_profit = 198)

C25_Witness ==
    \E i \in Emitted :
        /\ markets[i].yes_asks = << Ask(48, 100) >>
        /\ markets[i].no_asks = << Ask(50, 100) >>
        /\ results[i].liquidity = 100
        /\ results[i].position_size = 100
        /\ results[i].net_profit = 198

----------------------------------------------------------------------------
(* C26 *)

\* C26: the list rank_opportunities returns holds every opportunity of its
\* input as often as the input does, in descending order of APY, then net
\* profit, then liquidity, with opportunities equal on all three in their
\* original order; the empty list gives the empty list.
C26_RankedIsStableSort ==
    scan_pc = "done" =>
        /\ Len(ranked) = Len(opportunities)
        /\ \A i \in DOMAIN opportunities :
              Occurrences(ranked, opportunities[i])
                  = Occurrences(opportunities, opportunities[i])
        /\ \A i, j \in DOMAIN ranked :
              i < j =>
                  /\ RankedBefore(ranked[i], ranked[j])
                  /\ SameRank(ranked[i], ranked[j]) =>
                        PlaceIn(opportunities, ranked[i])
                            < PlaceIn(opportunities, ranked[j])
        /\ (opportunities = << >>) => (ranked = << >>)

C26_Witness ==
    /\ scan_pc = "done"
    /\ Len(ranked) = 3
    /\ ranked # opportunities
    /\ ranked[1].apy = ranked[2].apy
    /\ ranked[1].net_profit > ranked[2].net_profit
    /\ ranked[2].apy > ranked[3].apy
    /\ ranked[2].net_profit < ranked[3].net_profit

----------------------------------------------------------------------------
(* C27 *)

\* C27: ranking the list rank_opportunities returned gives that list again,
\* element for element.
C27_RankIdempotent ==
    scan_pc = "done" => rank_opportunities(ranked) = ranked

C27_Witness ==
    /\ scan_pc = "done"
    /\ Len(ranked) >= 2
    /\ ranked # opportunities
    /\ \E i, j \in DOMAIN ranked : i < j /\ SameRank(ranked[i], ranked[j])

----------------------------------------------------------------------------
(* C28 *)

\* What detect_arbitrage makes of each market whose books were fetched.
Evaluation ==
    [i \in DOMAIN markets |->
        IF Evaluated(i) THEN detect_arbitrage(markets[i], i, ScanConfig)
        ELSE None]

IsOpportunity(r) == r.type = "ArbitrageOpportunity"

\* C28: when scan_markets returns, every market's task has run to its end,
\* whichever of them failed, and the list returned holds, in the order of
\* the markets, exactly the opportunities of the markets that were fetched
\* and evaluated and are viable; while the scan runs, a task that has
\* returned keeps its result.
C28_FailuresIsolated ==
    /\ [](scan_pc \in {"rank", "done"} =>
             /\ \A i \in DOMAIN markets : outcomes[i] \in ScanOutcomes
             /\ opportunities = SelectSeq(Evaluation, IsOpportunity))
    /\ [][\A i \in DOMAIN results :
             results[i] # Pending => results'[i] = results[i]]_vars

C28_Witness ==
    /\ scan_pc = "done"
    /\ Len(markets) = 3
    /\ outcomes[1] = "fetch_failed"
    /\ outcomes[2] = "raised"
    /\ outcomes[3] = "books"
    /\ Len(opportunities) = 1
    /\ opportunities[1].market = 3

\* A scan that finds nothing returns the empty list.
C28_WitnessEmpty ==
    /\ scan_pc = "done"
    /\ markets # << >>
    /\ \A i \in DOMAIN markets : outcomes[i] # "books"
    /\ opportunities = << >>
    /\ ranked = << >>

----------------------------------------------------------------------------
(* C23 *)

\* The daily loss limit is breached or more than 95% of max_open_exposure
\* is in use.
StopCondition ==
    \/ daily_pnl <= - config.max_daily_loss
    \/ total_exposure * 100 > 95 * config.max_open_exposure

\* The loop is between its emergency-stop check and the end of the
\* execution of the cycle.
InCycle == live_pc \in {"scan", "validate", "check", "execute"}

\* C23: the loop scans, validates, checks and executes only in a cycle that
\* began with the emergency-stop query answering no; once the query has
\* answered yes the loop has stopped for good: no execute_arbitrage call is
\* made in that step or later, and no order is cancelled.
C23_EmergencyStopHalts ==
    /\ [](InCycle => (cycle.stop_checked /\ ~ StopCondition))
    /\ [][(live_pc = "loop" /\ live_pc' \notin {"loop", "finished"})
             => (StopCondition' <=> live_pc' = "stopped")]_vars
    /\ [][(live_pc = "stopped" \/ live_pc' = "stopped")
             => /\ live_pc' = "stopped"
                /\ executions' = executions
                /\ cancelReq' = cancelReq
                /\ cancelRuns' = cancelRuns]_vars

C23_Witness ==
    /\ live_pc = "stopped"
    /\ executions > 0
    /\ daily_pnl > 0
    /\ total_exposure * 100 > 95 * config.max_open_exposure

----------------------------------------------------------------------------
(* C29 *)

\* C29: execute_arbitrage is called only for the opportunity that, in this
\* cycle, came first in the ranked list, then passed validate_opportunity
\* and then was allowed by check_trade_allowed, and only if no execution
\* was made in the cycle yet; the admission check is made only for a
\* validated opportunity, and the opportunity in hand changes only when the
\* loop scans.
C29_ControlFlow ==
    /\ [](cycle.execs <= 1)
    /\ [](cycle.allowed => cycle.validated)
    /\ [][executions' # executions
             => /\ cycle.execs = 0
                /\ cycle.validated
                /\ cycle.allowed]_vars
    /\ [][(cycle'.validated /\ ~ cycle.validated)
             => /\ ranked # << >>
                /\ best_opp = ranked[1]
                /\ \A k \in DOMAIN ranked :
                      RankedBefore(best_opp, ranked[k])]_vars
    /\ [][(cycle'.allowed /\ ~ cycle.allowed)
             => /\ lastCheck'.allowed
                /\ lastCheck'.opp = best_opp]_vars
    /\ [][best_opp' # best_opp => live_pc = "scan"]_vars

C29_Witness ==
    /\ live_pc = "stats"
    /\ cycle.execs = 1
    /\ cycle.validated
    /\ cycle.allowed
    /\ executions = 2
    /\ trades_executed = 2
    /\ result = "SUCCESS"

\* The opportunity taken is the first of a list that ranking reordered.
C29_WitnessRanked ==
    /\ live_pc = "validate"
    /\ Len(ranked) = 2
    /\ ranked[1].apy > ranked[2].apy
    /\ ranked[1].net_profit < ranked[2].net_profit
    /\ best_opp = ranked[1]

----------------------------------------------------------------------------
(* C31 *)

\* The unwind has sent its place_limit_order request.
UnwindOrdered == unwind_order.requests > 0

\* C31: the unwind sends at most one place_limit_order request; the request
\* is a SELL on the token of the leg that is filled in the trade pair, never
\* on the other leg's token, at the best bid of that token's book and for
\* the filled leg's filled size, which is what the gateway holds filled of
\* that leg; when the filled token's book has no bid no request is sent, the
\* gateway holds no unwind order and the unwind has returned False.
C31_UnwindOrder ==
    /\ unwind_order.requests <= 1
    /\ (placed.UNWIND # "idle" \/ gw.UNWIND # "NONE") => UnwindOrdered
    /\ UnwindOrdered =>
          /\ unwindLeg \in Legs
          /\ unwindLeg = FilledLeg(trade_pair)
          /\ unwind_order.token = unwindLeg
          /\ unwind_order.token # Other(unwindLeg)
          /\ unwind_order.side = "SELL"
          /\ bids[unwindLeg]
          /\ unwind_order.price = bid_price[unwindLeg]
          /\ unwind_order.price \in BidPrices
          /\ unwind_order.size = filled_size(trade_pair[unwindLeg])
          /\ unwind_order.size = gw_filled[unwindLeg]
          /\ unwind_order.size > 0
    /\ (unwindLeg \in Legs /\ ~ bids[unwindLeg]) =>
          /\ ~ UnwindOrdered
          /\ placed.UNWIND = "idle"
          /\ gw.UNWIND = "NONE"
          /\ unwindResult = "False"
          /\ Done
          /\ result = "PARTIAL_FILL"

\* C31 witness: only the NO leg filled, its book shows a best bid of 47, and
\* the attempt has ended after one sell request for the two filled shares at
\* that price was accepted by the gateway.
C31_Witness ==
    /\ Done
    /\ unwindLeg = "NO"
    /\ unwind_order = [token |-> "NO", side |-> "SELL", price |-> 47,
                       size |-> 2, requests |-> 1]
    /\ bid_price.YES = 45
    /\ placed.UNWIND = "order"

\* The other case of C31: the filled token's book has no bid and the unwind
\* has failed without a sell request.
C31_WitnessNoBid ==
    /\ Done
    /\ unwindLeg = "YES"
    /\ ~ bids.YES
    /\ bookReqs = 1
    /\ ~ UnwindOrdered
    /\ unwindResult = "False"

----------------------------------------------------------------------------
(* C32 *)

\* C32: when execute_arbitrage has returned, an unwind sell order the
\* gateway accepted is filled or has had a cancel request issued: it does
\* not stay open at the gateway.
C32_UnwindOrderNotLeftOpen ==
    (Done /\ placed.UNWIND = "order") =>
        (gw.UNWIND = "FILLED" \/ CancelRequested("UNWIND"))

----------------------------------------------------------------------------
(* C33 *)

\* The polling loop of _wait_for_fills has run out and the code after it
\* (lines 218-230) has run.
LeftByTimeout == loopExit = "timeout" /\ pc # "timeout"

\* C33: whenever the polling loop has been left by timeout, exactly one
\* cancel request has been issued for each of the two legs, whatever the
\* gateway holds, _wait_for_fills returns TIMEOUT, no unwind is attempted and
\* execute_arbitrage returns TIMEOUT.
C33_TimeoutCancelsBoth ==
    LeftByTimeout =>
        /\ \A l \in Legs : cancelReq[l] = 1
        /\ waitResult = "TIMEOUT"
        /\ FinalStatus(trade_pair) = "TIMEOUT"
        /\ unwindLeg = "NONE"
        /\ ~ UnwindOrdered
        /\ Done => result = "TIMEOUT"

\* C33 witness: a leg was filled at the gateway after the last poll of a
\* loop that did poll, the loop ran out, and the attempt returned TIMEOUT
\* after a cancel request for both legs.
C33_Witness ==
    /\ Done
    /\ LeftByTimeout
    /\ order_timeout_seconds > 0
    /\ statusReqs > 0
    /\ GwFilled("YES")
    /\ ~ statusFailed
    /\ cancelReq.YES = 1
    /\ cancelReq.NO = 1
    /\ result = "TIMEOUT"

----------------------------------------------------------------------------
(* C34 *)

\* C34: whenever execute_arbitrage has returned TIMEOUT neither leg holds a
\* filled quantity at the gateway (stated for the attempts in which no
\* status check or ledger write failed and the gateway accepted both cancel
\* requests, so that neither leg is completely filled).
C34_TimeoutHoldsNothing ==
    (Done /\ result = "TIMEOUT" /\ ~ statusFailed /\ ~ ledgerFailed
       /\ \A l \in Legs : gw[l] = "CANCELLED") =>
        \A l \in Legs : gw_filled[l] = 0

----------------------------------------------------------------------------
(* C36 *)

\* The leg has been sold again by a successful unwind.
Unwound(leg) == unwindLeg = leg /\ unwindResult = "True"

\* C36: when an attempt has ended, every buy leg that is filled in the trade
\* pair (and so at the gateway) and was not successfully unwound has a
\* position in the ledger (stated for the attempts in which no ledger write
\* or status check failed).
C36_FilledLegsInLedger ==
    \A l \in Legs :
        (Done /\ ~ ledgerFailed /\ ~ statusFailed
           /\ is_filled(trade_pair[l]) /\ GwFilled(l) /\ ~ Unwound(l)) =>
            l \in positions

----------------------------------------------------------------------------
(* C38 *)

\* C38: whenever get_risk_stats has returned its dictionary to
\* check_emergency_stop, "can_trade" is false (the stop reports the daily
\* loss limit as reached) if and only if the daily-loss rule of
\* check_trade_allowed denies a trade at the same daily PnL.
C38_StopAgreesWithRule ==
    can_trade \in {"True", "False"} =>
        ((can_trade = "False") <=> DailyLossExceeded(daily_pnl, config))

----------------------------------------------------------------------------
(* C35 *)

\* A step that leaves the counters with the day they were counted for.
SameDay == daily_reset_time' = daily_reset_time

\* The step in which execute_arbitrage returns to the live loop.
ExecutionReturns == live_pc = "execute" /\ live_pc' = "stats"

\* C35: in the live loop the daily counters change within a day only in the
\* step in which an execution returns SUCCESS, by one trade and by the
\* opportunity's net profit; a FAILED, TIMEOUT, PARTIAL_FILL or UNWOUND
\* result leaves both alone; within a day daily_pnl never decreases, it is
\* never negative, and no admission check is denied for the daily loss.
C35_CountersOnlyOnSuccess ==
    /\ [][(SameDay /\ << daily_trades, daily_pnl >>' # << daily_trades, daily_pnl >>)
             => /\ ExecutionReturns
                /\ result' = "SUCCESS"
                /\ daily_trades' = daily_trades + 1
                /\ daily_pnl' = daily_pnl + best_opp.net_profit]_vars
    /\ [][(ExecutionReturns
             /\ result' \in {"FAILED", "TIMEOUT", "PARTIAL_FILL", "UNWOUND"})
             => UNCHANGED << daily_trades, daily_pnl, daily_reset_time >>]_vars
    /\ [][SameDay => daily_pnl' >= daily_pnl]_vars
    /\ [](daily_pnl >= 0)
    /\ [](~ DailyLossExceeded(daily_pnl, config))
    /\ [](lastCheck.reason # "daily_loss")

\* C35 witness: after a first execution that returned SUCCESS and was
\* recorded, a second execution of the same day has returned TIMEOUT and the
\* counters still show that one trade.
C35_Witness ==
    /\ live_pc = "stats"
    /\ result = "TIMEOUT"
    /\ executions = 2
    /\ trades_executed = 1
    /\ daily_reset_time = today
    /\ daily_trades = 1
    /\ daily_pnl = 18

----------------------------------------------------------------------------
(* C37 *)

\* C37: in the live loop, which starts with an empty ledger, the total cost
\* of the open positions never exceeds max_open_exposure, and a trade is
\* allowed only when the exposure plus position_size times sum_asks is at
\* most max_open_exposure.
C37_ExposureWithinLimit ==
    /\ [](total_exposure <= config.max_open_exposure)
    /\ [][(cycle'.allowed /\ ~ cycle.allowed)
             => new_exposure(total_exposure, best_opp)
                   <= config.max_open_exposure]_vars

\* C37 witness: with 196 of the 300 cents of max_open_exposure taken by a
\* recorded trade, the next trade has just been denied for the exposure.
C37_Witness ==
    /\ total_exposure = 196
    /\ config.max_open_exposure = 300
    /\ live_pc = "loop"
    /\ lastCheck.reason = "exposure"
    /\ ~ lastCheck.allowed
    /\ trades_executed = 1

----------------------------------------------------------------------------
(* C39 *)

\* A step in which an execute_copy_signal call starts.
CallStarts == lastReturn'.kind = "call"

\* C39: once the failure count has reached three and until reset_kill_switch
\* is called, no execute_copy_signal call that starts goes on to place an
\* order: it sends no place_limit_order request (the least of what the
\* REJECTED return stands for); a call that returns SUCCESS leaves the count
\* at zero, and one that returns SKIPPED, REJECTED or SIMULATED leaves the
\* count as it was.
C39_KillSwitch ==
    /\ [][(tripped /\ CallStarts) => ~ lastReturn'.posted]_vars
    /\ [][lastReturn'.result = "SUCCESS" => consecutive_failures' = 0]_vars
    /\ [][lastReturn'.result \in {"SKIPPED", "REJECTED", "SIMULATED"}
             => consecutive_failures' = consecutive_failures]_vars

----------------------------------------------------------------------------
(* C40 *)

\* The market was executed (SIMULATED or SUCCESS) less than an hour ago.
RecentlyExecuted(m) == Duplicate(executed_trades, m, clock)

\* C40: while a market was executed less than an hour ago, no call for that
\* market sends a place_limit_order request or ends SIMULATED or SUCCESS,
\* whether the call started after the earlier one ended or was processed
\* concurrently with it.
C40_NoDuplicateWithinHour ==
    [][(lastReturn'.kind \in {"call", "place"}
          /\ RecentlyExecuted(lastReturn'.market))
          => /\ lastReturn'.result \notin {"SIMULATED", "SUCCESS"}
             /\ ~ lastReturn'.posted]_vars

====
